---- MODULE Spec2Model ----
(***************************************************************************)
(* Model of the VM lifecycle of enterprise-vm-manager: the VM entity's     *)
(* status-transition table and operation eligibility (models), the         *)
(* repository's single-statement reads and writes over the                 *)
(* virtual_machines table (repositories, migrations), the service's        *)
(* request operations, split at their repository calls so that requests    *)
(* and background tasks interleave, and the fire-and-forget simulation     *)
(* goroutines (services).                                                   *)
(***************************************************************************)
EXTENDS Naturals, Sequences, FiniteSets, Bags, TLC

(***************************************************************************)
(* Bounds of the model.                                                    *)
(***************************************************************************)
NumVMs == 2
MaxReqs == 4
MaxClock == 2
MaxBytes == 1

\* cfg.Limits, scaled down.
MaxCPUCores == 2
MaxRAMMB == 2
MaxDiskGB == 2
MaxTotal == 7
MaxLimit == 3
MaxPage == 4

VMIds == 1..NumVMs
\* One name for each VM the bounds admit.
Names == {<<"vm-a", "vm-b", "vm-c", "vm-d">>[i] : i \in VMIds}

(***************************************************************************)
(* models: VMStatus and the operations the service passes to               *)
(* CanPerformOperation.                                                     *)
(***************************************************************************)
VMStatusPending == "pending"
VMStatusStopped == "stopped"
VMStatusStarting == "starting"
VMStatusRunning == "running"
VMStatusStopping == "stopping"
VMStatusSuspended == "suspended"
VMStatusError == "error"

Statuses ==
  {VMStatusPending, VMStatusStopped, VMStatusStarting, VMStatusRunning,
   VMStatusStopping, VMStatusSuspended, VMStatusError}

\* "none" marks a row that was never inserted.
NoRow == "none"

\* The operation strings that reach CanPerformOperation from the service.
Operations ==
  {"start", "stop", "restart", "suspend", "resume", "update", "delete",
   "force-stop", "restart-stop"}

\* A mutant of the table: stopped may also go straight to running.
validTransitionsSkip ==
  [pending   |-> <<VMStatusStopped, VMStatusStarting, VMStatusError>>,
   stopped   |-> <<VMStatusStarting, VMStatusPending, VMStatusError, VMStatusRunning>>,
   starting  |-> <<VMStatusRunning, VMStatusStopped, VMStatusError>>,
   running   |-> <<VMStatusStopping, VMStatusSuspended, VMStatusError>>,
   stopping  |-> <<VMStatusStopped, VMStatusError, VMStatusRunning>>,
   suspended |-> <<VMStatusRunning, VMStatusStopped, VMStatusError>>,
   error     |-> <<VMStatusStopped, VMStatusStarting>>]

\* The map literal of IsValidStatusTransition.
validTransitions ==
  [pending   |-> <<VMStatusStopped, VMStatusStarting, VMStatusError>>,
   stopped   |-> <<VMStatusStarting, VMStatusPending, VMStatusError>>,
   starting  |-> <<VMStatusRunning, VMStatusStopped, VMStatusError>>,
   running   |-> <<VMStatusStopping, VMStatusSuspended, VMStatusError>>,
   stopping  |-> <<VMStatusStopped, VMStatusError, VMStatusRunning>>,
   suspended |-> <<VMStatusRunning, VMStatusStopped, VMStatusError>>,
   error     |-> <<VMStatusStopped, VMStatusStarting>>]

\* VM.IsValidStatusTransition: look the current status up, then scan the list.
IsValidStatusTransition(status, newStatus) ==
  IF status \notin DOMAIN validTransitions
    THEN FALSE
    ELSE \E i \in 1..Len(validTransitions[status]) :
           validTransitions[status][i] = newStatus

\* A mutant of the switch: stop is allowed from running only.
CanPerformOperationStopRunningOnly(status, operation) ==
  CASE operation = "start"   -> status = VMStatusStopped
    [] operation = "stop"    -> status = VMStatusRunning
    [] operation = "restart" -> status = VMStatusRunning
    [] operation = "suspend" -> status = VMStatusRunning
    [] operation = "resume"  -> status = VMStatusSuspended
    [] operation = "update"  -> status = VMStatusStopped
    [] operation = "delete"  -> status = VMStatusStopped
    [] OTHER                 -> FALSE

\* A variant of the switch that allows update on a suspended VM as well.
CanPerformOperationUpdateSuspended(status, operation) ==
  CASE operation = "start"   -> status = VMStatusStopped
    [] operation = "stop"    -> status = VMStatusRunning \/ status = VMStatusStarting
    [] operation = "restart" -> status = VMStatusRunning
    [] operation = "suspend" -> status = VMStatusRunning
    [] operation = "resume"  -> status = VMStatusSuspended
    [] operation = "update"  -> status = VMStatusStopped \/ status = VMStatusSuspended
    [] operation = "delete"  -> status = VMStatusStopped
    [] OTHER                 -> FALSE

\* VM.CanPerformOperation: the switch over the operation string.
CanPerformOperation(status, operation) ==
  CASE operation = "start"   -> status = VMStatusStopped
    [] operation = "stop"    -> status = VMStatusRunning \/ status = VMStatusStarting
    [] operation = "restart" -> status = VMStatusRunning
    [] operation = "suspend" -> status = VMStatusRunning
    [] operation = "resume"  -> status = VMStatusSuspended
    [] operation = "update"  -> status = VMStatusStopped
    [] operation = "delete"  -> status = VMStatusStopped
    [] OTHER                 -> FALSE

\* VM.GetUptime: seconds since startedAt for a running VM (0 stands for nil).
GetUptime(status, startedAt, now) ==
  IF status = VMStatusRunning /\ startedAt # 0 THEN now - startedAt ELSE 0


(***************************************************************************)
(* State.                                                                  *)
(*   trigger        TRUE when the SQL migration (and with it the trigger   *)
(*                  validate_vm_status_transition) was applied; FALSE when *)
(*                  no migrations path is configured or the schema comes   *)
(*                  from AutoMigrate, as in the test suite                 *)
(*   vms            the rows of virtual_machines, by id                    *)
(*   inflight       requests between two of their repository calls (a bag) *)
(*   tasks          background goroutines that have not finished (a bag)   *)
(*   issued         number of requests accepted so far                     *)
(*   resp           the response of the request that returned last         *)
(*   clock          wall-clock time in seconds                             *)
(*   taskErrors     per VM and task kind, the number of status-write       *)
(*                  failures the task logged                               *)
(*   runningSince   history: the time of the last write of status running  *)
(*   deletedIds     history: the ids whose DeleteVM returned success       *)
(*   fn             inputs and results of the entity's pure checks         *)
(***************************************************************************)
VARIABLES trigger, vms, inflight, tasks, issued, resp, clock, taskErrors,
          runningSince, deletedIds, fn

vars == <<trigger, vms, inflight, tasks, issued, resp, clock, taskErrors,
          runningSince, deletedIds, fn>>

sysVars == <<trigger, vms, inflight, tasks, issued, resp, clock, taskErrors,
             runningSince, deletedIds>>

StatusTaskKinds == {"provisioning", "startup", "shutdown", "restart"}

\* VMSpec: the three resources the limits apply to.
VMSpec(cpu, ram, disk) == [cpu |-> cpu, ram |-> ram, disk |-> disk]

NoSpec == VMSpec(0, 0, 0)

\* A row of virtual_machines.  rx stands for both network counters.
EmptyRow ==
  [name |-> "", status |-> NoRow, deleted |-> FALSE, startedAt |-> 0,
   uptime |-> 0, lastStats |-> 0, rx |-> 0, spec |-> NoSpec, description |-> ""]

\* VMCreateRequest.ToVM followed by the insert: status pending, no startedAt,
\* zero stats.
NewRow(n, spec) ==
  [name |-> n, status |-> VMStatusPending, deleted |-> FALSE, startedAt |-> 0,
   uptime |-> 0, lastStats |-> 0, rx |-> 0, spec |-> spec, description |-> ""]

NoResp ==
  [op |-> "none", vm |-> 0, result |-> "none", current |-> "none",
   required |-> "none", resource |-> "none", requested |-> 0]

Response(op, v, result) ==
  [op |-> op, vm |-> v, result |-> result, current |-> "none",
   required |-> "none", resource |-> "none", requested |-> 0]

\* errors.VMStateError: INVALID_VM_STATE with current_state and required_state.
VMStateError(op, v, currentState, requiredState) ==
  [op |-> op, vm |-> v, result |-> "InvalidVMState", current |-> currentState,
   required |-> requiredState, resource |-> "none", requested |-> 0]

\* errors.ResourceLimitError: RESOURCE_EXCEEDED with the resource type and the
\* requested value.
ResourceLimitError(op, v, resourceType, requested) ==
  [op |-> op, vm |-> v, result |-> "ResourceExceeded", current |-> "none",
   required |-> "none", resource |-> resourceType, requested |-> requested]

\* A request in flight: what it is, where it is, the status it read and, for a
\* stats refresh, the uptime and time it sampled after its read.  rx is the
\* network counter a stats refresh sampled, held the VM value a create or an
\* update is about to write.
\* todo is, for a ListVMs, the running VMs of its page whose stats it has
\* still to refresh; errs is history: the number of repository errors the
\* request has met and gone on from.
Request(op, v, n, pc, seen, uptime, at) ==
  [op |-> op, vm |-> v, name |-> n, pc |-> pc, seen |-> seen,
   uptime |-> uptime, at |-> at, rx |-> 0, held |-> EmptyRow,
   todo |-> {}, errs |-> 0]

\* A background goroutine: its kind, its VM, where it is and, for the stats
\* updater, the uptime, time and network counter it sampled after its read.
Task(kind, v, pc, uptime, at) ==
  [kind |-> kind, vm |-> v, pc |-> pc, uptime |-> uptime, at |-> at, rx |-> 0]

One(x) == SetToBag({x})

FnIdle ==
  [status |-> VMStatusPending, newStatus |-> VMStatusPending,
   operation |-> "start", valid |-> FALSE, can |-> FALSE,
   validDone |-> FALSE, canDone |-> FALSE]

(***************************************************************************)
(* repositories and the schema.                                            *)
(***************************************************************************)
\* gorm.DeletedAt: every query through the model sees only rows whose
\* deleted_at is null.
RowVisible(v) == vms[v].status # NoRow /\ ~vms[v].deleted

\* vmRepository.GetByID: the row, NotFound, or a database error.
GetByID(v, dbOk) ==
  IF ~dbOk THEN "StorageError"
  ELSE IF RowVisible(v) THEN "ok" ELSE "NotFound"

\* vmRepository.ExistsByName: counts the visible rows with that name.
ExistsByName(n) == \E v \in VMIds : RowVisible(v) /\ vms[v].name = n

\* A mutant of the constraint: no unique index on name.
NameNeverTaken(n) == FALSE

\* virtual_machines.name UNIQUE: over all rows, soft-deleted ones included.
NameTaken(n) == \E v \in VMIds : vms[v].status # NoRow /\ vms[v].name = n

\* A variant of the trigger's table without stopping -> running.
TriggerAcceptsNoStoppingToRunning(old, new) ==
  IF old = new THEN TRUE
  ELSE CASE old = "pending"   -> new \in {"stopped", "starting", "error"}
         [] old = "stopped"   -> new \in {"starting", "pending", "error"}
         [] old = "starting"  -> new \in {"running", "stopped", "error"}
         [] old = "running"   -> new \in {"stopping", "suspended", "error"}
         [] old = "stopping"  -> new \in {"stopped", "error"}
         [] old = "suspended" -> new \in {"running", "stopped", "error"}
         [] old = "error"     -> new \in {"stopped", "starting"}
         [] OTHER             -> TRUE

\* validate_vm_status_transition: an UPDATE that changes status must follow
\* the CASE over OLD.status.
TriggerAccepts(old, new) ==
  IF old = new THEN TRUE
  ELSE CASE old = "pending"   -> new \in {"stopped", "starting", "error"}
         [] old = "stopped"   -> new \in {"starting", "pending", "error"}
         [] old = "starting"  -> new \in {"running", "stopped", "error"}
         [] old = "running"   -> new \in {"stopping", "suspended", "error"}
         [] old = "stopping"  -> new \in {"stopped", "error", "running"}
         [] old = "suspended" -> new \in {"running", "stopped", "error"}
         [] old = "error"     -> new \in {"stopped", "starting"}
         [] OTHER             -> TRUE

\* A variant of UpdateStatus without the soft-delete scope.
UpdateStatusUnscoped(v, status, dbOk) ==
  IF ~dbOk THEN "StorageError"
  ELSE IF vms[v].status = NoRow THEN "NotFound"
  ELSE IF trigger /\ ~TriggerAccepts(vms[v].status, status) THEN "StorageError"
  ELSE "ok"

\* vmRepository.UpdateStatus: one UPDATE ... WHERE id = ? on the visible row.
\* A failing statement or a trigger exception is a database error; no row
\* affected is NotFound.
UpdateStatus(v, status, dbOk) ==
  IF ~dbOk THEN "StorageError"
  ELSE IF ~RowVisible(v) THEN "NotFound"
  ELSE IF trigger /\ ~TriggerAccepts(vms[v].status, status) THEN "StorageError"
  ELSE "ok"

\* The row after a successful UpdateStatus: only status (and updated_at).
StatusWritten(v, status) == [vms EXCEPT ![v].status = status]

\* vmRepository.UpdateStats and vmRepository.Delete: one statement on the
\* visible row, which leaves status alone.
UpdateRow(v, dbOk) ==
  IF ~dbOk THEN "StorageError"
  ELSE IF ~RowVisible(v) THEN "NotFound"
  ELSE "ok"

RunningSinceAfter(v, status) ==
  IF status = VMStatusRunning
    THEN [runningSince EXCEPT ![v] = clock]
    ELSE runningSince


(***************************************************************************)
(* services: requests.  A request takes one step per repository call; the  *)
(* checks and the return that follow a call belong to its step.            *)
(***************************************************************************)
\* The newStatus each Start/Stop/Restart/Suspend/Resume passes to
\* changeVMState with its operation string.
NewStatusOf(operation) ==
  CASE operation = "start"        -> VMStatusStarting
    [] operation = "stop"         -> VMStatusStopping
    [] operation = "force-stop"   -> VMStatusStopped
    [] operation = "restart-stop" -> VMStatusStopping
    [] operation = "suspend"      -> VMStatusSuspended
    [] operation = "resume"       -> VMStatusRunning

\* StartVM, StopVM (force or not), SuspendVM, ResumeVM enter changeVMState
\* directly.
DirectOperations == {"start", "stop", "force-stop", "suspend", "resume"}

\* The name under which the caller sees the response.
RequestOf(operation) ==
  IF operation = "restart-stop" THEN "restart" ELSE operation

\* A variant of changeVMState that goes to its write unchecked.
ChangeVMStateChecksUnchecked(v, operation, others, dbOk) ==
  LET got == GetByID(v, dbOk)
      cur == vms[v].status
  IN  IF got # "ok"
        THEN /\ resp' = Response(RequestOf(operation), v, got)
             /\ inflight' = others
      ELSE /\ inflight' = others (+) One(Request(operation, v, "", "write", cur, 0, 0))
           /\ UNCHANGED resp

\* A variant of changeVMState's checks without the transition check.
ChangeVMStateChecksEligibilityOnly(v, operation, others, dbOk) ==
  LET got == GetByID(v, dbOk)
      cur == vms[v].status
      newStatus == NewStatusOf(operation)
  IN  IF got # "ok"
        THEN /\ resp' = Response(RequestOf(operation), v, got)
             /\ inflight' = others
      ELSE IF ~CanPerformOperation(cur, operation)
        THEN /\ resp' = VMStateError(RequestOf(operation), v, cur, newStatus)
             /\ inflight' = others
      ELSE /\ inflight' = others (+) One(Request(operation, v, "", "write", cur, 0, 0))
           /\ UNCHANGED resp

\* changeVMState up to its UpdateStatus call: GetByID, the eligibility check,
\* the transition check.  others is the bag of the other requests in flight.
ChangeVMStateChecks(v, operation, others, dbOk) ==
  LET got == GetByID(v, dbOk)
      cur == vms[v].status
      newStatus == NewStatusOf(operation)
  IN  IF got # "ok"
        THEN /\ resp' = Response(RequestOf(operation), v, got)
             /\ inflight' = others
      ELSE IF ~CanPerformOperation(cur, operation)
        THEN /\ resp' = VMStateError(RequestOf(operation), v, cur, newStatus)
             /\ inflight' = others
      ELSE IF ~IsValidStatusTransition(cur, newStatus)
        THEN /\ resp' = VMStateError(RequestOf(operation), v, cur, newStatus)
             /\ inflight' = others
      ELSE /\ inflight' = others (+) One(Request(operation, v, "", "write", cur, 0, 0))
           /\ UNCHANGED resp

\* A mutant of the spawn: the shutdown goroutine is not started.
SpawnedByNoShutdown(operation, v) ==
  IF NewStatusOf(operation) = VMStatusStarting
    THEN One(Task("startup", v, "sleep", 0, 0))
    ELSE EmptyBag

\* A mutant of the spawn: a write of running starts a stats updater.
SpawnedByUpdaterOnRunning(operation, v) ==
  IF NewStatusOf(operation) = VMStatusStarting
    THEN One(Task("startup", v, "sleep", 0, 0))
  ELSE IF NewStatusOf(operation) = VMStatusStopping
    THEN One(Task("shutdown", v, "sleep", 0, 0))
  ELSE IF NewStatusOf(operation) = VMStatusRunning
    THEN One(Task("updater", v, "tick", 0, 0))
  ELSE EmptyBag

\* The goroutines changeVMState (and RestartVM after it) start once the
\* status is written.
SpawnedBy(operation, v) ==
  (IF NewStatusOf(operation) = VMStatusStarting
     THEN One(Task("startup", v, "sleep", 0, 0))
   ELSE IF NewStatusOf(operation) = VMStatusStopping
     THEN One(Task("shutdown", v, "sleep", 0, 0))
   ELSE EmptyBag)
  (+)
  (IF operation = "restart-stop"
     THEN One(Task("restart", v, "sleep", 0, 0))
     ELSE EmptyBag)

\* StartVM / StopVM / SuspendVM / ResumeVM: the first step of changeVMState.
ChangeVMStateRead(v, operation) ==
  /\ issued < MaxReqs
  /\ issued' = issued + 1
  /\ \E dbOk \in BOOLEAN : ChangeVMStateChecks(v, operation, inflight, dbOk)
  /\ UNCHANGED <<trigger, vms, tasks, clock, taskErrors, runningSince, deletedIds, fn>>

\* changeVMState from UpdateStatus on: the write, the spawn, the return.
ChangeVMStateWrite(r) ==
  /\ BagIn(r, inflight)
  /\ r.pc = "write"
  /\ r.op \in DirectOperations \cup {"restart-stop"}
  /\ inflight' = inflight (-) One(r)
  /\ \E dbOk \in BOOLEAN :
       LET newStatus == NewStatusOf(r.op)
           res == UpdateStatus(r.vm, newStatus, dbOk)
       IN  IF res = "ok"
             THEN /\ vms' = StatusWritten(r.vm, newStatus)
                  /\ runningSince' = RunningSinceAfter(r.vm, newStatus)
                  /\ tasks' = tasks (+) SpawnedBy(r.op, r.vm)
                  /\ resp' = Response(RequestOf(r.op), r.vm, "ok")
             ELSE /\ resp' = Response(RequestOf(r.op), r.vm, res)
                  /\ UNCHANGED <<vms, runningSince, tasks>>
  /\ UNCHANGED <<trigger, issued, clock, taskErrors, deletedIds, fn>>

\* RestartVM up to its call of changeVMState: GetByID and the restart
\* eligibility check.
RestartVMRead(v) ==
  /\ issued < MaxReqs
  /\ issued' = issued + 1
  /\ \E dbOk \in BOOLEAN :
       LET got == GetByID(v, dbOk)
           cur == vms[v].status
       IN  IF got # "ok"
             THEN /\ resp' = Response("restart", v, got)
                  /\ UNCHANGED inflight
           ELSE IF ~CanPerformOperation(cur, "restart")
             THEN /\ resp' = VMStateError("restart", v, cur, VMStatusRunning)
                  /\ UNCHANGED inflight
           ELSE /\ inflight' = inflight (+) One(Request("restart-stop", v, "", "read", cur, 0, 0))
                /\ UNCHANGED resp
  /\ UNCHANGED <<trigger, vms, tasks, clock, taskErrors, runningSince, deletedIds, fn>>

\* RestartVM's call changeVMState(..., VMStatusStopping, req, "restart-stop"),
\* up to its UpdateStatus call.
RestartVMChangeState(r) ==
  /\ BagIn(r, inflight)
  /\ r.op = "restart-stop"
  /\ r.pc = "read"
  /\ \E dbOk \in BOOLEAN :
       ChangeVMStateChecks(r.vm, "restart-stop", inflight (-) One(r), dbOk)
  /\ UNCHANGED <<trigger, vms, tasks, issued, clock, taskErrors, runningSince, deletedIds, fn>>

\* The ids CreateVM can still take: rows are never removed.
FreeIds == {v \in VMIds : vms[v].status = NoRow}

\* A variant of validateResourceLimits that also refuses a value equal to
\* its limit.
validateResourceLimitsInclusive(cpu, ram, disk) ==
  IF cpu >= MaxCPUCores THEN "CPU cores"
  ELSE IF ram >= MaxRAMMB THEN "RAM MB"
  ELSE IF disk >= MaxDiskGB THEN "Disk GB"
  ELSE "ok"

\* vmService.validateResourceLimits: "ok", or the first resource over its
\* limit in the order CPU, RAM, disk.
validateResourceLimits(cpu, ram, disk) ==
  IF cpu > MaxCPUCores THEN "CPU cores"
  ELSE IF ram > MaxRAMMB THEN "RAM MB"
  ELSE IF disk > MaxDiskGB THEN "Disk GB"
  ELSE "ok"

\* The value ResourceLimitError reports as requested.
Requested(resourceType, cpu, ram, disk) ==
  CASE resourceType = "CPU cores" -> cpu
    [] resourceType = "RAM MB"    -> ram
    [] resourceType = "Disk GB"   -> disk

\* The specs a create request asks for: one within the limits, one over
\* the CPU limit, one over the disk limit.
SpecInputs ==
  {VMSpec(1, 1, 1), VMSpec(MaxCPUCores + 1, 1, 1), VMSpec(1, 1, MaxDiskGB + 1)}

\* CreateVM up to its Create call: the resource limits, then the name check
\* through ExistsByName.
CreateVMCheck(n, spec) ==
  /\ issued < MaxReqs
  /\ issued' = issued + 1
  /\ \E dbOk \in BOOLEAN :
       LET limit == validateResourceLimits(spec.cpu, spec.ram, spec.disk)
       IN  IF limit # "ok"
             THEN /\ resp' = ResourceLimitError("create", 0, limit,
                                                Requested(limit, spec.cpu, spec.ram, spec.disk))
                  /\ UNCHANGED inflight
           ELSE IF ~dbOk
             THEN /\ resp' = Response("create", 0, "StorageError")
                  /\ UNCHANGED inflight
           ELSE IF ExistsByName(n)
             THEN /\ resp' = Response("create", 0, "AlreadyExists")
                  /\ UNCHANGED inflight
           ELSE /\ inflight' = inflight (+)
                       One([Request("create", 0, n, "write", NoRow, 0, 0)
                              EXCEPT !.held = NewRow(n, spec)])
                /\ UNCHANGED resp
  /\ UNCHANGED <<trigger, vms, tasks, clock, taskErrors, runningSince, deletedIds, fn>>

\* A variant of CreateVM that starts the provisioning goroutine before it
\* looks at the result of the insert.
CreateVMInsertSpawnsFirst(r) ==
  /\ BagIn(r, inflight)
  /\ r.op = "create"
  /\ FreeIds # {} \/ NameTaken(r.name)
  /\ inflight' = inflight (-) One(r)
  /\ \E dbOk \in BOOLEAN :
       LET v == IF FreeIds = {} THEN 0
                ELSE CHOOSE x \in FreeIds : \A y \in FreeIds : x <= y
       IN  /\ tasks' = tasks (+) One(Task("provisioning", v, "sleep", 0, 0))
           /\ IF ~dbOk
                THEN /\ resp' = Response("create", 0, "StorageError")
                     /\ UNCHANGED vms
              ELSE IF NameTaken(r.name)
                THEN /\ resp' = Response("create", 0, "AlreadyExists")
                     /\ UNCHANGED vms
              ELSE /\ vms' = [vms EXCEPT ![v] = r.held]
                   /\ resp' = [Response("create", v, "ok") EXCEPT !.current = VMStatusPending]
  /\ UNCHANGED <<trigger, issued, clock, taskErrors, runningSince, deletedIds, fn>>

\* CreateVM from the insert on: vmRepo.Create, go simulateProvisioning, return.
CreateVMInsert(r) ==
  /\ BagIn(r, inflight)
  /\ r.op = "create"
  /\ FreeIds # {} \/ NameTaken(r.name)
  /\ inflight' = inflight (-) One(r)
  /\ \E dbOk \in BOOLEAN :
       LET v == IF FreeIds = {} THEN 0
                ELSE CHOOSE x \in FreeIds : \A y \in FreeIds : x <= y
       IN  IF ~dbOk
             THEN /\ resp' = Response("create", 0, "StorageError")
                  /\ UNCHANGED <<vms, tasks>>
           ELSE IF NameTaken(r.name)
             THEN /\ resp' = Response("create", 0, "AlreadyExists")
                  /\ UNCHANGED <<vms, tasks>>
           ELSE /\ vms' = [vms EXCEPT ![v] = r.held]
                /\ tasks' = tasks (+) One(Task("provisioning", v, "sleep", 0, 0))
                /\ resp' = [Response("create", v, "ok") EXCEPT !.current = VMStatusPending]
  /\ UNCHANGED <<trigger, issued, clock, taskErrors, runningSince, deletedIds, fn>>

\* GetVM: one GetByID; the VM with its status, or the error.
GetVM(v) ==
  /\ issued < MaxReqs
  /\ issued' = issued + 1
  /\ \E dbOk \in BOOLEAN :
       LET got == GetByID(v, dbOk)
       IN  resp' = IF got = "ok"
                     THEN [Response("get", v, "ok") EXCEPT !.current = vms[v].status]
                     ELSE Response("get", v, got)
  /\ UNCHANGED <<trigger, vms, inflight, tasks, clock, taskErrors, runningSince, deletedIds, fn>>

\* The names and CPU counts an update request carries: "" and 0 stand for
\* absent fields.  RAM and disk are left absent.
UpdateNames == Names \cup {""}
UpdateCPUs == {0, MaxCPUCores, MaxCPUCores + 1}

\* VMUpdateRequest: "" and 0 stand for absent fields.
VMUpdateRequest(n, d, cpu, ram, disk) ==
  [name |-> n, description |-> d, cpu |-> cpu, ram |-> ram, disk |-> disk]

\* The update requests the service is sent: a name or none, a CPU count or
\* none, the other fields absent.
UpdateRequests ==
  {VMUpdateRequest(n, "", cpu, 0, 0) : n \in UpdateNames, cpu \in UpdateCPUs}

\* A variant of ApplyToVM that leaves the RAM as it is.
ApplyToVMKeepsRAM(row, req) ==
  [row EXCEPT !.name = IF req.name # "" THEN req.name ELSE @,
              !.description = IF req.description # "" THEN req.description ELSE @,
              !.spec.cpu = IF req.cpu > 0 THEN req.cpu ELSE @,
              !.spec.disk = IF req.disk > 0 THEN req.disk ELSE @]

\* VMUpdateRequest.ApplyToVM on the VM that was read: the fields that are
\* present replace the VM's.
ApplyToVM(row, req) ==
  [row EXCEPT !.name = IF req.name # "" THEN req.name ELSE @,
              !.description = IF req.description # "" THEN req.description ELSE @,
              !.spec.cpu = IF req.cpu > 0 THEN req.cpu ELSE @,
              !.spec.ram = IF req.ram > 0 THEN req.ram ELSE @,
              !.spec.disk = IF req.disk > 0 THEN req.disk ELSE @]

\* UpdateVM up to its next repository call: GetByID, the update eligibility
\* check and the resource limits on the merged spec; then ExistsByName when
\* the name changes, the Update call otherwise.
UpdateVMRead(v, req) ==
  /\ issued < MaxReqs
  /\ issued' = issued + 1
  /\ \E dbOk \in BOOLEAN :
       LET got == GetByID(v, dbOk)
           row == vms[v]
           newCPU == IF req.cpu = 0 THEN row.spec.cpu ELSE req.cpu
           newRAM == IF req.ram = 0 THEN row.spec.ram ELSE req.ram
           newDisk == IF req.disk = 0 THEN row.spec.disk ELSE req.disk
           limit == validateResourceLimits(newCPU, newRAM, newDisk)
           renames == req.name # "" /\ req.name # row.name
       IN  IF got # "ok"
             THEN /\ resp' = Response("update", v, got)
                  /\ UNCHANGED inflight
           ELSE IF ~CanPerformOperation(row.status, "update")
             THEN /\ resp' = VMStateError("update", v, row.status, VMStatusStopped)
                  /\ UNCHANGED inflight
           ELSE IF limit # "ok"
             THEN /\ resp' = ResourceLimitError("update", v, limit,
                                                Requested(limit, newCPU, newRAM, newDisk))
                  /\ UNCHANGED inflight
           ELSE /\ inflight' = inflight (+)
                       One([Request("update", v, req.name,
                                    IF renames THEN "exists" ELSE "write",
                                    row.status, 0, 0)
                              EXCEPT !.held = ApplyToVM(row, req)])
                /\ UNCHANGED resp
  /\ UNCHANGED <<trigger, vms, tasks, clock, taskErrors, runningSince, deletedIds, fn>>

\* UpdateVM's name check: ExistsByName on the new name.
UpdateVMExists(r) ==
  /\ BagIn(r, inflight)
  /\ r.op = "update"
  /\ r.pc = "exists"
  /\ \E dbOk \in BOOLEAN :
       IF ~dbOk
         THEN /\ resp' = Response("update", r.vm, "StorageError")
              /\ inflight' = inflight (-) One(r)
       ELSE IF ExistsByName(r.name)
         THEN /\ resp' = Response("update", r.vm, "AlreadyExists")
              /\ inflight' = inflight (-) One(r)
       ELSE /\ inflight' = (inflight (-) One(r)) (+) One([r EXCEPT !.pc = "write"])
            /\ UNCHANGED resp
  /\ UNCHANGED <<trigger, vms, tasks, issued, clock, taskErrors, runningSince, deletedIds, fn>>

\* virtual_machines.name UNIQUE, for a row that takes the name n: another
\* row, soft-deleted or not, has it.
NameTakenByOther(v, n) ==
  \E w \in VMIds \ {v} : vms[w].status # NoRow /\ vms[w].name = n

\* vmRepository.Update: gorm's Save of the whole VM value, status, stats and
\* deleted_at included.  On a row that is visible it is an UPDATE of every
\* column.  On a row soft-deleted meanwhile the UPDATE matches nothing and
\* Save goes on to insert: as a plain INSERT, which fails on the primary key
\* (reported as "duplicate key"), or as an upsert, which rewrites the row,
\* deleted_at included (upsert tells which, by the gorm release in use).
\* The trigger runs before the row is written, so before the unique index
\* is checked.
Update(v, held, dbOk, upsert) ==
  IF ~dbOk THEN "StorageError"
  ELSE IF ~RowVisible(v) /\ ~upsert THEN "AlreadyExists"
  ELSE IF trigger /\ ~TriggerAccepts(vms[v].status, held.status) THEN "StorageError"
  ELSE IF NameTakenByOther(v, held.name) THEN "AlreadyExists"
  ELSE "ok"

\* UpdateVM from vmRepo.Update on: the save and the return.
UpdateVMWrite(r) ==
  /\ BagIn(r, inflight)
  /\ r.op = "update"
  /\ r.pc = "write"
  /\ inflight' = inflight (-) One(r)
  /\ \E dbOk \in BOOLEAN, upsert \in BOOLEAN :
       LET res == Update(r.vm, r.held, dbOk, upsert)
       IN  /\ resp' = Response("update", r.vm, res)
           /\ vms' = IF res = "ok" THEN [vms EXCEPT ![r.vm] = r.held] ELSE vms
           /\ runningSince' = IF res = "ok"
                                THEN RunningSinceAfter(r.vm, r.held.status)
                                ELSE runningSince
  /\ UNCHANGED <<trigger, tasks, issued, clock, taskErrors, deletedIds, fn>>

\* DeleteVM up to its Delete call: GetByID and the delete eligibility check.
DeleteVMRead(v) ==
  /\ issued < MaxReqs
  /\ issued' = issued + 1
  /\ \E dbOk \in BOOLEAN :
       LET got == GetByID(v, dbOk)
           cur == vms[v].status
       IN  IF got # "ok"
             THEN /\ resp' = Response("delete", v, got)
                  /\ UNCHANGED inflight
           ELSE IF ~CanPerformOperation(cur, "delete")
             THEN /\ resp' = VMStateError("delete", v, cur, VMStatusStopped)
                  /\ UNCHANGED inflight
           ELSE /\ inflight' = inflight (+) One(Request("delete", v, "", "write", cur, 0, 0))
                /\ UNCHANGED resp
  /\ UNCHANGED <<trigger, vms, tasks, clock, taskErrors, runningSince, deletedIds, fn>>

\* DeleteVM from vmRepo.Delete on: the soft delete and the return.
DeleteVMWrite(r) ==
  /\ BagIn(r, inflight)
  /\ r.op = "delete"
  /\ inflight' = inflight (-) One(r)
  /\ \E dbOk \in BOOLEAN :
       LET res == UpdateRow(r.vm, dbOk)
       IN  /\ resp' = Response("delete", r.vm, res)
           /\ vms' = IF res = "ok" THEN [vms EXCEPT ![r.vm].deleted = TRUE] ELSE vms
           /\ deletedIds' = IF res = "ok" THEN deletedIds \cup {r.vm} ELSE deletedIds
  /\ UNCHANGED <<trigger, tasks, issued, clock, taskErrors, runningSince, fn>>

\* The row after a successful UpdateStats with the sampled uptime, time and
\* network counter.  The sampled percentages are left out.
StatsWritten(v, uptime, at, rx) ==
  [vms EXCEPT ![v].uptime = uptime, ![v].lastStats = at, ![v].rx = rx]

\* vm.Stats.NetworkRxBytes + rand.Int63n(...): the counter that was read plus
\* a delta that may be 0, as far as the model's counters go.
SampledBytes(v) == {vms[v].rx + delta : delta \in {0, 1}} \cap (0..MaxBytes)

\* UpdateVMStats up to its UpdateStats call: GetByID, the running check and
\* the sampling of the new stats.
UpdateVMStatsRead(v) ==
  /\ issued < MaxReqs
  /\ issued' = issued + 1
  /\ \E dbOk \in BOOLEAN, rx \in SampledBytes(v) :
       LET got == GetByID(v, dbOk)
       IN  IF got # "ok"
             THEN /\ resp' = Response("stats", v, got)
                  /\ UNCHANGED inflight
           ELSE IF vms[v].status # VMStatusRunning
             THEN /\ resp' = Response("stats", v, "ok")
                  /\ UNCHANGED inflight
           ELSE /\ inflight' = inflight (+)
                       One([Request("stats", v, "", "write", VMStatusRunning,
                                    GetUptime(vms[v].status, vms[v].startedAt, clock), clock)
                              EXCEPT !.rx = rx])
                /\ UNCHANGED resp
  /\ UNCHANGED <<trigger, vms, tasks, clock, taskErrors, runningSince, deletedIds, fn>>

\* UpdateVMStats from vmRepo.UpdateStats on.
UpdateVMStatsWrite(r) ==
  /\ BagIn(r, inflight)
  /\ r.op = "stats"
  /\ inflight' = inflight (-) One(r)
  /\ \E dbOk \in BOOLEAN :
       LET res == UpdateRow(r.vm, dbOk)
       IN  /\ resp' = Response("stats", r.vm, res)
           /\ vms' = IF res = "ok" THEN StatsWritten(r.vm, r.uptime, r.at, r.rx) ELSE vms
  /\ UNCHANGED <<trigger, tasks, issued, clock, taskErrors, runningSince, deletedIds, fn>>

\* ListVMs up to the end of vmRepo.List: the page holds every visible VM (no
\* filter, a limit of at least NumVMs).  With include_stats the running VMs
\* of the page are the ones to refresh.
ListVMs(includeStats) ==
  /\ issued < MaxReqs
  /\ issued' = issued + 1
  /\ \E dbOk \in BOOLEAN :
       IF ~dbOk
         THEN /\ resp' = Response("list", 0, "StorageError")
              /\ UNCHANGED inflight
       ELSE /\ inflight' = inflight (+)
                   One([Request("list", 0, "", "refresh", NoRow, 0, 0)
                          EXCEPT !.todo = IF includeStats
                                            THEN {v \in VMIds : RowVisible(v) /\
                                                    vms[v].status = VMStatusRunning}
                                            ELSE {}])
            /\ UNCHANGED resp
  /\ UNCHANGED <<trigger, vms, tasks, clock, taskErrors, runningSince, deletedIds, fn>>

\* The VM of the page ListVMs refreshes next: the default order is
\* created_at desc, the newest id first.
NextToRefresh(r) == CHOOSE v \in r.todo : \A w \in r.todo : w <= v

\* s.UpdateVMStats(ctx, vm.ID) inside ListVMs, up to its UpdateStats call; its
\* error is not looked at, and the loop goes on.
ListVMsRefreshRead(r) ==
  /\ BagIn(r, inflight)
  /\ r.op = "list"
  /\ r.pc = "refresh"
  /\ r.todo # {}
  /\ LET v == NextToRefresh(r)
     IN  \E dbOk \in BOOLEAN, rx \in SampledBytes(v) :
           LET got == GetByID(v, dbOk)
               after == IF got # "ok"
                          THEN [r EXCEPT !.todo = @ \ {v}, !.errs = 1]
                        ELSE IF vms[v].status # VMStatusRunning
                          THEN [r EXCEPT !.todo = @ \ {v}]
                        ELSE [r EXCEPT !.pc = "write", !.vm = v, !.rx = rx, !.at = clock,
                                       !.uptime = GetUptime(vms[v].status, vms[v].startedAt, clock)]
           IN  inflight' = (inflight (-) One(r)) (+) One(after)
  /\ UNCHANGED <<trigger, vms, tasks, issued, resp, clock, taskErrors, runningSince,
                 deletedIds, fn>>

\* The UpdateStats call of that refresh; its error is dropped as well.
ListVMsRefreshWrite(r) ==
  /\ BagIn(r, inflight)
  /\ r.op = "list"
  /\ r.pc = "write"
  /\ \E dbOk \in BOOLEAN :
       LET res == UpdateRow(r.vm, dbOk)
           after == [r EXCEPT !.pc = "refresh", !.todo = @ \ {r.vm}, !.vm = 0, !.rx = 0,
                              !.at = 0, !.uptime = 0,
                              !.errs = IF res = "ok" THEN @ ELSE 1]
       IN  /\ vms' = IF res = "ok" THEN StatsWritten(r.vm, r.uptime, r.at, r.rx) ELSE vms
           /\ inflight' = (inflight (-) One(r)) (+) One(after)
  /\ UNCHANGED <<trigger, tasks, issued, resp, clock, taskErrors, runningSince,
                 deletedIds, fn>>

\* ListVMs after its loop: the pagination and the successful return.
ListVMsReturn(r) ==
  /\ BagIn(r, inflight)
  /\ r.op = "list"
  /\ r.pc = "refresh"
  /\ r.todo = {}
  /\ inflight' = inflight (-) One(r)
  /\ resp' = Response("list", 0, "ok")
  /\ UNCHANGED <<trigger, vms, tasks, issued, clock, taskErrors, runningSince,
                 deletedIds, fn>>


(***************************************************************************)
(* services: background goroutines.  The sleeps put no upper bound on when *)
(* a task's repository call happens, so a task may take its step at any    *)
(* time after it was started.                                              *)
(***************************************************************************)
Logged(v, kind) == [taskErrors EXCEPT ![v][kind] = @ + 1]

\* A simulate* goroutine's single UpdateStatus: the write when it succeeds,
\* the logged error when it does not.
TaskStatusWrite(t, status, dbOk) ==
  LET res == UpdateStatus(t.vm, status, dbOk)
  IN  IF res = "ok"
        THEN /\ vms' = StatusWritten(t.vm, status)
             /\ runningSince' = RunningSinceAfter(t.vm, status)
             /\ UNCHANGED taskErrors
        ELSE /\ taskErrors' = Logged(t.vm, t.kind)
             /\ UNCHANGED <<vms, runningSince>>

\* A mutant of the provisioning task: it writes error.
SimulateProvisioningWritesError(t) ==
  /\ BagIn(t, tasks)
  /\ t.kind = "provisioning"
  /\ tasks' = tasks (-) One(t)
  /\ \E dbOk \in BOOLEAN : TaskStatusWrite(t, VMStatusError, dbOk)
  /\ UNCHANGED <<trigger, inflight, issued, resp, clock, deletedIds, fn>>

\* simulateProvisioning: writes stopped, whatever the status is.
SimulateProvisioning(t) ==
  /\ BagIn(t, tasks)
  /\ t.kind = "provisioning"
  /\ tasks' = tasks (-) One(t)
  /\ \E dbOk \in BOOLEAN : TaskStatusWrite(t, VMStatusStopped, dbOk)
  /\ UNCHANGED <<trigger, inflight, issued, resp, clock, deletedIds, fn>>

\* A mutant of the startup task: it writes stopped and starts no updater.
SimulateStartupWritesStopped(t) ==
  /\ BagIn(t, tasks)
  /\ t.kind = "startup"
  /\ tasks' = tasks (-) One(t)
  /\ \E dbOk \in BOOLEAN : TaskStatusWrite(t, VMStatusStopped, dbOk)
  /\ UNCHANGED <<trigger, inflight, issued, resp, clock, deletedIds, fn>>

\* simulateStartup: writes running and, when the write succeeded, starts the
\* stats updater.  Nothing writes started_at.
SimulateStartup(t) ==
  /\ BagIn(t, tasks)
  /\ t.kind = "startup"
  /\ \E dbOk \in BOOLEAN :
       /\ TaskStatusWrite(t, VMStatusRunning, dbOk)
       /\ tasks' = IF UpdateStatus(t.vm, VMStatusRunning, dbOk) = "ok"
                     THEN (tasks (-) One(t)) (+) One(Task("updater", t.vm, "tick", 0, 0))
                     ELSE tasks (-) One(t)
  /\ UNCHANGED <<trigger, inflight, issued, resp, clock, deletedIds, fn>>

\* simulateShutdown: writes stopped.
SimulateShutdown(t) ==
  /\ BagIn(t, tasks)
  /\ t.kind = "shutdown"
  /\ tasks' = tasks (-) One(t)
  /\ \E dbOk \in BOOLEAN : TaskStatusWrite(t, VMStatusStopped, dbOk)
  /\ UNCHANGED <<trigger, inflight, issued, resp, clock, deletedIds, fn>>

\* A variant of simulateRestart that goes on to its second write when the
\* first one failed.
SimulateRestartStartingGoesOn(t) ==
  /\ BagIn(t, tasks)
  /\ t.kind = "restart"
  /\ t.pc = "sleep"
  /\ \E dbOk \in BOOLEAN : TaskStatusWrite(t, VMStatusStarting, dbOk)
  /\ tasks' = (tasks (-) One(t)) (+) One(Task("restart", t.vm, "starting", 0, 0))
  /\ UNCHANGED <<trigger, inflight, issued, resp, clock, deletedIds, fn>>

\* simulateRestart up to its second sleep: writes starting; a failed write
\* is logged and ends the goroutine.
SimulateRestartStarting(t) ==
  /\ BagIn(t, tasks)
  /\ t.kind = "restart"
  /\ t.pc = "sleep"
  /\ \E dbOk \in BOOLEAN :
       /\ TaskStatusWrite(t, VMStatusStarting, dbOk)
       /\ tasks' = IF UpdateStatus(t.vm, VMStatusStarting, dbOk) = "ok"
                     THEN (tasks (-) One(t)) (+) One(Task("restart", t.vm, "starting", 0, 0))
                     ELSE tasks (-) One(t)
  /\ UNCHANGED <<trigger, inflight, issued, resp, clock, deletedIds, fn>>

\* simulateRestart after its second sleep: writes running and, when the
\* write succeeded, starts the stats updater.
SimulateRestartRunning(t) ==
  /\ BagIn(t, tasks)
  /\ t.kind = "restart"
  /\ t.pc = "starting"
  /\ \E dbOk \in BOOLEAN :
       /\ TaskStatusWrite(t, VMStatusRunning, dbOk)
       /\ tasks' = IF UpdateStatus(t.vm, VMStatusRunning, dbOk) = "ok"
                     THEN (tasks (-) One(t)) (+) One(Task("updater", t.vm, "tick", 0, 0))
                     ELSE tasks (-) One(t)
  /\ UNCHANGED <<trigger, inflight, issued, resp, clock, deletedIds, fn>>

\* A variant of the updater's tick that ends only on a status other than
\* running, whether the read succeeded or not.
StatsUpdaterTickIgnoresError(t) ==
  /\ BagIn(t, tasks)
  /\ t.kind = "updater"
  /\ t.pc = "tick"
  /\ IF vms[t.vm].status = VMStatusRunning
       THEN tasks' = (tasks (-) One(t)) (+) One(Task("updater", t.vm, "call", 0, 0))
       ELSE tasks' = tasks (-) One(t)
  /\ UNCHANGED <<trigger, vms, inflight, issued, resp, clock, taskErrors,
                 runningSince, deletedIds, fn>>

\* startStatsUpdater, at a tick: GetByID; the loop ends unless the VM was
\* read and is running.
StatsUpdaterTick(t) ==
  /\ BagIn(t, tasks)
  /\ t.kind = "updater"
  /\ t.pc = "tick"
  /\ \E dbOk \in BOOLEAN :
       IF GetByID(t.vm, dbOk) = "ok" /\ vms[t.vm].status = VMStatusRunning
         THEN tasks' = (tasks (-) One(t)) (+) One(Task("updater", t.vm, "call", 0, 0))
         ELSE tasks' = tasks (-) One(t)
  /\ UNCHANGED <<trigger, vms, inflight, issued, resp, clock, taskErrors,
                 runningSince, deletedIds, fn>>

\* startStatsUpdater's call of UpdateVMStats, up to its UpdateStats call.
StatsUpdaterCall(t) ==
  /\ BagIn(t, tasks)
  /\ t.kind = "updater"
  /\ t.pc = "call"
  /\ \E dbOk \in BOOLEAN, rx \in SampledBytes(t.vm) :
       IF GetByID(t.vm, dbOk) = "ok" /\ vms[t.vm].status = VMStatusRunning
         THEN tasks' = (tasks (-) One(t)) (+)
                         One([Task("updater", t.vm, "write",
                                   GetUptime(vms[t.vm].status, vms[t.vm].startedAt, clock), clock)
                                EXCEPT !.rx = rx])
         ELSE tasks' = (tasks (-) One(t)) (+) One(Task("updater", t.vm, "tick", 0, 0))
  /\ UNCHANGED <<trigger, vms, inflight, issued, resp, clock, taskErrors,
                 runningSince, deletedIds, fn>>

\* The UpdateStats call of that UpdateVMStats; the updater then waits for its
\* next tick, whether the write succeeded or not.
StatsUpdaterWrite(t) ==
  /\ BagIn(t, tasks)
  /\ t.kind = "updater"
  /\ t.pc = "write"
  /\ tasks' = (tasks (-) One(t)) (+) One(Task("updater", t.vm, "tick", 0, 0))
  /\ \E dbOk \in BOOLEAN :
       vms' = IF UpdateRow(t.vm, dbOk) = "ok"
                THEN StatsWritten(t.vm, t.uptime, t.at, t.rx)
                ELSE vms
  /\ UNCHANGED <<trigger, inflight, issued, resp, clock, taskErrors,
                 runningSince, deletedIds, fn>>

\* Time passes.
Tick ==
  /\ clock < MaxClock
  /\ clock' = clock + 1
  /\ UNCHANGED <<trigger, vms, inflight, tasks, issued, resp, taskErrors,
                 runningSince, deletedIds, fn>>

(***************************************************************************)
(* Specifications.                                                         *)
(***************************************************************************)
Init ==
  /\ trigger \in BOOLEAN
  /\ vms = [v \in VMIds |-> EmptyRow]
  /\ inflight = EmptyBag
  /\ tasks = EmptyBag
  /\ issued = 0
  /\ resp = NoResp
  /\ clock = 1
  /\ taskErrors = [v \in VMIds |-> [k \in StatusTaskKinds |-> 0]]
  /\ runningSince = [v \in VMIds |-> 0]
  /\ deletedIds = {}
  /\ fn = FnIdle

Next ==
  \/ \E n \in Names, spec \in SpecInputs : CreateVMCheck(n, spec)
  \/ \E r \in BagToSet(inflight) : CreateVMInsert(r)
  \/ \E v \in VMIds, operation \in DirectOperations : ChangeVMStateRead(v, operation)
  \/ \E r \in BagToSet(inflight) : ChangeVMStateWrite(r)
  \/ \E v \in VMIds : RestartVMRead(v)
  \/ \E r \in BagToSet(inflight) : RestartVMChangeState(r)
  \/ \E v \in VMIds : GetVM(v)
  \/ \E v \in VMIds, req \in UpdateRequests : UpdateVMRead(v, req)
  \/ \E r \in BagToSet(inflight) : UpdateVMExists(r)
  \/ \E r \in BagToSet(inflight) : UpdateVMWrite(r)
  \/ \E v \in VMIds : DeleteVMRead(v)
  \/ \E r \in BagToSet(inflight) : DeleteVMWrite(r)
  \/ \E v \in VMIds : UpdateVMStatsRead(v)
  \/ \E r \in BagToSet(inflight) : UpdateVMStatsWrite(r)
  \/ \E t \in BagToSet(tasks) : SimulateProvisioning(t)
  \/ \E t \in BagToSet(tasks) : SimulateStartup(t)
  \/ \E t \in BagToSet(tasks) : SimulateShutdown(t)
  \/ \E t \in BagToSet(tasks) : StatsUpdaterTick(t)
  \/ \E t \in BagToSet(tasks) : StatsUpdaterCall(t)
  \/ \E t \in BagToSet(tasks) : StatsUpdaterWrite(t)

\* The lifecycle with requests and background tasks interleaved.
Spec == Init /\ [][Next]_vars

TimeNext == Next \/ Tick

\* The same, with time passing.
TimeSpec == Init /\ [][TimeNext]_vars

\* Requests served one at a time: while a request is between two of its
\* repository calls, the only step is its next one; background tasks run
\* between requests.
AtomicNext ==
  /\ Next
  /\ inflight # EmptyBag =>
       \E r \in BagToSet(inflight) : CopiesIn(r, inflight') < CopiesIn(r, inflight)

AtomicSpec == Init /\ [][AtomicNext]_vars

\* RestartVM past its changeVMState call (vm_service.go:258-265): the VM,
\* created, started and running before, has status stopping; changeVMState
\* has started simulateShutdown and RestartVM has started simulateRestart.
\* The updater of the earlier start may still be there.
RestartInit ==
  /\ trigger \in BOOLEAN
  /\ vms = [v \in VMIds |->
              IF v = 1
                THEN [NewRow("vm-a", VMSpec(1, 1, 1)) EXCEPT !.status = VMStatusStopping]
                ELSE EmptyRow]
  /\ inflight = EmptyBag
  /\ \E updaters \in {EmptyBag, One(Task("updater", 1, "tick", 0, 0))} :
       tasks = SpawnedBy("restart-stop", 1) (+) updaters
  /\ issued = 3
  /\ resp = Response("restart", 1, "ok")
  /\ clock = 1
  /\ taskErrors = [v \in VMIds |-> [k \in StatusTaskKinds |-> 0]]
  /\ runningSince = [v \in VMIds |-> IF v = 1 THEN 1 ELSE 0]
  /\ deletedIds = {}
  /\ fn = FnIdle

RestartNext ==
  \/ Next
  \/ \E t \in BagToSet(tasks) : SimulateRestartStarting(t)
  \/ \E t \in BagToSet(tasks) : SimulateRestartRunning(t)

\* The system from a restart that was accepted.
RestartSpec == RestartInit /\ [][RestartNext]_vars

ListNext ==
  \/ Next
  \/ \E includeStats \in BOOLEAN : ListVMs(includeStats)
  \/ \E r \in BagToSet(inflight) : ListVMsRefreshRead(r)
  \/ \E r \in BagToSet(inflight) : ListVMsRefreshWrite(r)
  \/ \E r \in BagToSet(inflight) : ListVMsReturn(r)

\* The same as Spec, with ListVMs requests among the others.
ListSpec == Init /\ [][ListNext]_vars

\* A goroutine that was started gets to run: the scheduler starves none.
TaskFairness ==
  \A v \in VMIds :
    /\ WF_vars(SimulateProvisioning(Task("provisioning", v, "sleep", 0, 0)))
    /\ WF_vars(SimulateStartup(Task("startup", v, "sleep", 0, 0)))
    /\ WF_vars(SimulateShutdown(Task("shutdown", v, "sleep", 0, 0)))

LiveSpec == Init /\ [][Next]_vars /\ TaskFairness

\* The ticker of a stats updater keeps firing, and the repository calls of
\* the UpdateVMStats it makes return.
UpdaterFairness ==
  \A v \in VMIds :
    /\ WF_vars(\E t \in BagToSet(tasks) : t.vm = v /\ StatsUpdaterTick(t))
    /\ WF_vars(\E t \in BagToSet(tasks) : t.vm = v /\ StatsUpdaterCall(t))
    /\ WF_vars(\E t \in BagToSet(tasks) : t.vm = v /\ StatsUpdaterWrite(t))

UpdaterLiveSpec == Init /\ [][Next]_vars /\ TaskFairness /\ UpdaterFairness

(***************************************************************************)
(* The entity's checks on their own: every status, also one outside the    *)
(* enum, against every status and every operation string.                  *)
(***************************************************************************)
StatusInputs == Statuses \cup {"unknown"}
OperationInputs == Operations \cup {"reboot"}

FnInit ==
  /\ trigger = FALSE
  /\ vms = [v \in VMIds |-> EmptyRow]
  /\ inflight = EmptyBag
  /\ tasks = EmptyBag
  /\ issued = 0
  /\ resp = NoResp
  /\ clock = 1
  /\ taskErrors = [v \in VMIds |-> [k \in StatusTaskKinds |-> 0]]
  /\ runningSince = [v \in VMIds |-> 0]
  /\ deletedIds = {}
  /\ fn \in [status : StatusInputs, newStatus : StatusInputs,
             operation : OperationInputs, valid : {FALSE}, can : {FALSE},
             validDone : {FALSE}, canDone : {FALSE}]

FnCheckTransition ==
  /\ ~fn.validDone
  /\ fn' = [fn EXCEPT !.valid = IsValidStatusTransition(fn.status, fn.newStatus),
                      !.validDone = TRUE]
  /\ UNCHANGED sysVars

FnCheckOperation ==
  /\ ~fn.canDone
  /\ fn' = [fn EXCEPT !.can = CanPerformOperation(fn.status, fn.operation),
                      !.canDone = TRUE]
  /\ UNCHANGED sysVars

FnNext == FnCheckTransition \/ FnCheckOperation

FnSpec == FnInit /\ [][FnNext]_vars

\* ---------------------------------------------------------------------------
\* The resource limits over every combination of requested values from zero
\* to one past each limit: one CreateVM call per combination.

LimitInit ==
  /\ trigger = FALSE
  /\ vms = [v \in VMIds |-> EmptyRow]
  /\ inflight = EmptyBag
  /\ tasks = EmptyBag
  /\ issued = 0
  /\ resp = NoResp
  /\ clock = 1
  /\ taskErrors = [v \in VMIds |-> [k \in StatusTaskKinds |-> 0]]
  /\ runningSince = [v \in VMIds |-> 0]
  /\ deletedIds = {}
  /\ fn \in [cpu : 0..(MaxCPUCores + 1), ram : 0..(MaxRAMMB + 1),
             disk : 0..(MaxDiskGB + 1)]

\* The request of this combination enters CreateVM.
LimitCreate ==
  /\ issued = 0
  /\ \E n \in Names : CreateVMCheck(n, VMSpec(fn.cpu, fn.ram, fn.disk))

LimitNext ==
  \/ LimitCreate
  \/ \E r \in BagToSet(inflight) : CreateVMInsert(r)

LimitSpec == LimitInit /\ [][LimitNext]_vars

\* ---------------------------------------------------------------------------
\* The pagination of ListVMs over every total the repository can count up to
\* MaxTotal, every limit from 1 to MaxLimit and every page from 1 to MaxPage
\* (the binding of VMListOptions admits no page or limit below 1).  The
\* int64 sum total + limit - 1 cannot overflow for a row count and a limit of
\* at most 100, so the arithmetic is that of the integers; the operands are
\* not negative, so Go's division is the floor.

\* A variant of totalPages that rounds down.
totalPagesFloor(total, limit) == total \div limit

\* totalPages := (total + int64(opts.Limit) - 1) / int64(opts.Limit)
totalPages(total, limit) == (total + limit - 1) \div limit

\* models.Pagination as ListVMs fills it.
Pagination(page, limit, total) ==
  [page |-> page, limit |-> limit, total |-> total,
   totalPages |-> totalPages(total, limit),
   hasNext |-> page < totalPages(total, limit),
   hasPrev |-> page > 1]

PageInit ==
  /\ trigger = FALSE
  /\ vms = [v \in VMIds |-> EmptyRow]
  /\ inflight = EmptyBag
  /\ tasks = EmptyBag
  /\ issued = 0
  /\ resp = NoResp
  /\ clock = 1
  /\ taskErrors = [v \in VMIds |-> [k \in StatusTaskKinds |-> 0]]
  /\ runningSince = [v \in VMIds |-> 0]
  /\ deletedIds = {}
  /\ fn \in [page : 1..MaxPage, limit : 1..MaxLimit, total : 0..MaxTotal,
             totalPages : {0}, hasNext : {FALSE}, hasPrev : {FALSE},
             done : {FALSE}]

\* ListVMs from the repository's answer on: the pagination of the response.
ListVMsPagination ==
  /\ ~fn.done
  /\ fn' = Pagination(fn.page, fn.limit, fn.total) @@ [done |-> TRUE]
  /\ UNCHANGED sysVars

PageSpec == PageInit /\ [][ListVMsPagination]_vars

\* ---------------------------------------------------------------------------
\* The resource summary over every fleet of up to NumVMs rows: each row is
\* absent, or present and running or stopped, soft-deleted or not, with a
\* spec within the limits.

Resources == {"cpu", "ram", "disk"}

\* The sum of f over VMIds, as SUM does over the rows.
Sum(f) ==
  LET s[n \in 0..NumVMs] == IF n = 0 THEN 0 ELSE s[n - 1] + f[n]
  IN  s[NumVMs]

\* A variant of TotalOf without the soft-delete scope of Model(&models.VM{}).
TotalOfAllRows(res) ==
  Sum([v \in VMIds |-> IF vms[v].status # NoRow THEN vms[v].spec[res] ELSE 0])

\* COALESCE(SUM(cpu_cores), 0) and its like, over the rows in scope.
TotalOf(res) ==
  Sum([v \in VMIds |-> IF RowVisible(v) THEN vms[v].spec[res] ELSE 0])

\* COALESCE(SUM(CASE WHEN status = 'running' THEN cpu_cores ELSE 0 END), 0).
UsedOf(res) ==
  Sum([v \in VMIds |-> IF RowVisible(v) /\ vms[v].status = VMStatusRunning
                         THEN vms[v].spec[res] ELSE 0])

\* A variant of Usage that divides the other way round.
UsageInverted(used, total) ==
  IF used > 0 THEN (2 * total * 10000 + used) \div (2 * used) ELSE 0

\* float64(used) / float64(total) * 100 under its guard total > 0; the zero
\* value of the field otherwise.  The float is kept in hundredths of a
\* percent, rounded to the nearest.
Usage(used, total) ==
  IF total > 0 THEN (2 * used * 10000 + total) \div (2 * total) ELSE 0

\* summary.Resources.CPU / RAM / Disk.
ResourceUsage(res) ==
  [total |-> TotalOf(res), used |-> UsedOf(res),
   available |-> TotalOf(res) - UsedOf(res),
   usage |-> Usage(UsedOf(res), TotalOf(res))]

NoSummary == [res \in Resources |-> [total |-> 0, used |-> 0, available |-> 0, usage |-> 0]]

\* The specs of the rows of a fleet.
FleetSpecs ==
  {VMSpec(cpu, 1, disk) : cpu \in 1..MaxCPUCores, disk \in 1..MaxDiskGB}
    \cup {VMSpec(1, MaxRAMMB, 1)}

\* The rows id v can hold.
FleetRows(v) ==
  {EmptyRow} \cup
  {[NewRow(<<"vm-a", "vm-b", "vm-c", "vm-d">>[v], spec) EXCEPT !.status = st, !.deleted = del] :
     spec \in FleetSpecs,
     st \in {VMStatusStopped, VMStatusRunning},
     del \in BOOLEAN}

SummaryInit ==
  /\ trigger = FALSE
  /\ vms \in [VMIds -> UNION {FleetRows(v) : v \in VMIds}]
  /\ \A v \in VMIds : vms[v] \in FleetRows(v)
  /\ inflight = EmptyBag
  /\ tasks = EmptyBag
  /\ issued = 0
  /\ resp = NoResp
  /\ clock = 1
  /\ taskErrors = [v \in VMIds |-> [k \in StatusTaskKinds |-> 0]]
  /\ runningSince = [v \in VMIds |-> 0]
  /\ deletedIds = {}
  /\ fn = [result |-> "none", summary |-> NoSummary]

\* vmService.GetResourceSummary: the repository's summary, or its error.
GetResourceSummary ==
  /\ fn.result = "none"
  /\ \E dbOk \in BOOLEAN :
       fn' = IF dbOk
               THEN [result |-> "ok", summary |-> [res \in Resources |-> ResourceUsage(res)]]
               ELSE [result |-> "StorageError", summary |-> NoSummary]
  /\ UNCHANGED sysVars

SummarySpec == SummaryInit /\ [][GetResourceSummary]_vars

\* ---------------------------------------------------------------------------
\* UpdateVM on a stopped VM over every combination of present and absent
\* fields, each resource from absent to one past its limit.  fn holds the
\* request and, as old, the VM as it is stored before the call.

UpdateInit ==
  /\ trigger = FALSE
  /\ fn \in [name : Names \cup {""}, description : {"", "text"},
             cpu : 0..(MaxCPUCores + 1), ram : 0..(MaxRAMMB + 1),
             disk : 0..(MaxDiskGB + 1),
             old : {[NewRow("vm-a", spec) EXCEPT !.status = VMStatusStopped] :
                      spec \in {VMSpec(1, 1, 1), VMSpec(MaxCPUCores, MaxRAMMB, MaxDiskGB)}}]
  /\ vms = [v \in VMIds |-> IF v = 1 THEN fn.old ELSE EmptyRow]
  /\ inflight = EmptyBag
  /\ tasks = EmptyBag
  /\ issued = 0
  /\ resp = NoResp
  /\ clock = 1
  /\ taskErrors = [v \in VMIds |-> [k \in StatusTaskKinds |-> 0]]
  /\ runningSince = [v \in VMIds |-> 0]
  /\ deletedIds = {}

\* The request of this combination enters UpdateVM.
UpdateCall ==
  /\ issued = 0
  /\ UpdateVMRead(1, VMUpdateRequest(fn.name, fn.description, fn.cpu, fn.ram, fn.disk))

UpdateNext ==
  \/ UpdateCall
  \/ \E r \in BagToSet(inflight) : UpdateVMExists(r)
  \/ \E r \in BagToSet(inflight) : UpdateVMWrite(r)

UpdateSpec == UpdateInit /\ [][UpdateNext]_vars


\* ---------------------------------------------------------------------------
\* simulateProvisioning as a unit: the goroutine runs for a VM whose row is
\* in any status, soft-deleted or not, with or without the trigger.

\* The rows id v can hold when a background task makes its write.
AnyRows(v) ==
  {[NewRow(<<"vm-a", "vm-b", "vm-c", "vm-d">>[v], VMSpec(1, 1, 1))
      EXCEPT !.status = st, !.deleted = del] : st \in Statuses, del \in BOOLEAN}

ProvisionInit ==
  /\ trigger \in BOOLEAN
  /\ vms \in [VMIds -> UNION {AnyRows(v) : v \in VMIds}]
  /\ \A v \in VMIds : vms[v] \in AnyRows(v)
  /\ inflight = EmptyBag
  /\ tasks = SetToBag({Task("provisioning", v, "sleep", 0, 0) : v \in VMIds})
  /\ issued = 0
  /\ resp = NoResp
  /\ clock = 1
  /\ taskErrors = [v \in VMIds |-> [k \in StatusTaskKinds |-> 0]]
  /\ runningSince = [v \in VMIds |-> 0]
  /\ deletedIds = {v \in VMIds : vms[v].deleted}
  /\ fn = FnIdle

ProvisionNext == \E t \in BagToSet(tasks) : SimulateProvisioning(t)

ProvisionSpec == ProvisionInit /\ [][ProvisionNext]_vars


\* ---------------------------------------------------------------------------
\* errors: the AppError values two requests hand to their responses.  The
\* constructors NotFoundError and VMStateError write into the package-level
\* values ErrNotFound and ErrInvalidVMState and return that same pointer;
\* the handler adds request_id to it and serialises it.  fn holds the
\* package-level values, each caller's constructor call and position, and
\* what was sent.

\* The requests that fail, by request id.
Callers == {"A", "B"}

\* The Code of the package-level values the two constructors use.
Sentinels == {"NOT_FOUND", "INVALID_VM_STATE"}

ContextKeys ==
  {"resource_type", "resource_id", "vm_id", "current_state", "required_state", "request_id"}

\* An AppError as declared in the var block: no context ("" is an absent
\* key), no details.
AppError(code) ==
  [code |-> code, context |-> [k \in ContextKeys |-> ""], details |-> <<>>]

\* NotFoundError: the WithContext calls in order, then the details.
NotFoundErrorCall(resourceType, resourceID) ==
  [sentinel |-> "NOT_FOUND",
   writes |-> << <<"resource_type", resourceType>>, <<"resource_id", resourceID>> >>,
   details |-> <<resourceType, resourceID>>]

\* VMStateError: the WithContext calls in order, then the details.
VMStateErrorCall(vmID, currentState, requiredState) ==
  [sentinel |-> "INVALID_VM_STATE",
   writes |-> << <<"vm_id", vmID>>, <<"current_state", currentState>>,
                 <<"required_state", requiredState>> >>,
   details |-> <<vmID, currentState, requiredState>>]

\* The failures a request can have.
ErrorCalls ==
  {NotFoundErrorCall("VM", id) : id \in {"1", "2"}}
    \cup {VMStateErrorCall("1", VMStatusPending, VMStatusStarting),
          VMStateErrorCall("2", VMStatusRunning, VMStatusStopped)}

\* AppError.WithContext: writes the key into the receiver's map.
WithContext(e, key, value) == [e EXCEPT !.context[key] = value]

\* AppError.WithDetails: writes the receiver's Details.
WithDetails(e, details) == [e EXCEPT !.details = details]

NoError == [code |-> "none", context |-> [k \in ContextKeys |-> ""], details |-> <<>>]

ErrorInit ==
  /\ trigger = FALSE
  /\ vms = [v \in VMIds |-> EmptyRow]
  /\ inflight = EmptyBag
  /\ tasks = EmptyBag
  /\ issued = 0
  /\ resp = NoResp
  /\ clock = 1
  /\ taskErrors = [v \in VMIds |-> [k \in StatusTaskKinds |-> 0]]
  /\ runningSince = [v \in VMIds |-> 0]
  /\ deletedIds = {}
  /\ \E calls \in [Callers -> ErrorCalls] :
       fn = [errs |-> [s \in Sentinels |-> AppError(s)],
             call |-> calls,
             at |-> [c \in Callers |-> 0],
             sent |-> [c \in Callers |-> NoError],
             crashed |-> FALSE]

\* The next WithContext call of caller c's constructor.
ConstructorWithContext(c) ==
  LET call == fn.call[c]
      i == fn.at[c] + 1
  IN  /\ ~fn.crashed
      /\ i <= Len(call.writes)
      /\ fn' = [fn EXCEPT !.errs[call.sentinel] = WithContext(@, call.writes[i][1], call.writes[i][2]),
                          !.at[c] = i]
      /\ UNCHANGED sysVars

\* The WithDetails call that ends caller c's constructor.
ConstructorWithDetails(c) ==
  LET call == fn.call[c]
  IN  /\ ~fn.crashed
      /\ fn.at[c] = Len(call.writes)
      /\ fn' = [fn EXCEPT !.errs[call.sentinel] = WithDetails(@, call.details),
                          !.at[c] = Len(call.writes) + 1]
      /\ UNCHANGED sysVars

\* VMHandler: errors.ToAppError(err).WithContext("request_id", requestID).
\* ToAppError returns the pointer it was given.
HandlerWithContext(c) ==
  LET call == fn.call[c]
  IN  /\ ~fn.crashed
      /\ fn.at[c] = Len(call.writes) + 1
      /\ fn' = [fn EXCEPT !.errs[call.sentinel] = WithContext(@, "request_id", c),
                          !.at[c] = Len(call.writes) + 2]
      /\ UNCHANGED sysVars

\* VMHandler: c.JSON serialises the value the pointer refers to.
HandlerRespond(c) ==
  LET call == fn.call[c]
  IN  /\ ~fn.crashed
      /\ fn.at[c] = Len(call.writes) + 2
      /\ fn' = [fn EXCEPT !.sent[c] = fn.errs[call.sentinel],
                          !.at[c] = Len(call.writes) + 3]
      /\ UNCHANGED sysVars

\* Caller c is between its first write to the shared value and its read.
Writing(c) == fn.at[c] \in 1..(Len(fn.call[c].writes) + 2)

\* Two goroutines write one map without synchronisation: the runtime may
\* end the process ("concurrent map writes"), or the writes go through in
\* either order (the other actions).
ConcurrentMapWrites ==
  /\ ~fn.crashed
  /\ \E c, d \in Callers :
       /\ c # d
       /\ fn.call[c].sentinel = fn.call[d].sentinel
       /\ Writing(c) /\ Writing(d)
  /\ fn' = [fn EXCEPT !.crashed = TRUE]
  /\ UNCHANGED sysVars

ErrorNext ==
  \/ \E c \in Callers : ConstructorWithContext(c)
  \/ \E c \in Callers : ConstructorWithDetails(c)
  \/ \E c \in Callers : HandlerWithContext(c)
  \/ \E c \in Callers : HandlerRespond(c)
  \/ ConcurrentMapWrites

ErrorSpec == ErrorInit /\ [][ErrorNext]_vars


\* ---------------------------------------------------------------------------
\* One status write on a stored VM, for every pair of a stored status and a
\* new status: the service's IsValidStatusTransition on the stored VM next
\* to the store's answer to the UPDATE.  fn holds the new status, the
\* service's answer and the store's.

TriggerInit ==
  /\ trigger \in BOOLEAN
  /\ \E old \in Statuses :
       vms = [v \in VMIds |->
                IF v = 1 THEN [NewRow("vm-a", VMSpec(1, 1, 1)) EXCEPT !.status = old]
                         ELSE EmptyRow]
  /\ inflight = EmptyBag
  /\ tasks = EmptyBag
  /\ issued = 0
  /\ resp = NoResp
  /\ clock = 1
  /\ taskErrors = [v \in VMIds |-> [k \in StatusTaskKinds |-> 0]]
  /\ runningSince = [v \in VMIds |-> 0]
  /\ deletedIds = {}
  /\ \E new \in Statuses :
       fn = [old |-> vms[1].status, newStatus |-> new, valid |-> FALSE,
             result |-> "none"]

\* IsValidStatusTransition on the stored VM, then UpdateStatus with a
\* working database.
TriggerWrite ==
  /\ fn.result = "none"
  /\ LET res == UpdateStatus(1, fn.newStatus, TRUE)
     IN  /\ fn' = [fn EXCEPT !.valid = IsValidStatusTransition(vms[1].status, fn.newStatus),
                             !.result = res]
         /\ vms' = IF res = "ok" THEN StatusWritten(1, fn.newStatus) ELSE vms
  /\ UNCHANGED <<trigger, inflight, tasks, issued, resp, clock, taskErrors,
                 runningSince, deletedIds>>

TriggerSpec == TriggerInit /\ [][TriggerWrite]_vars


(***************************************************************************)
(* The tables of the specification (section 4.1), as sets.                 *)
(***************************************************************************)
TransitionTable ==
  [pending   |-> {"stopped", "starting", "error"},
   stopped   |-> {"starting", "pending", "error"},
   starting  |-> {"running", "stopped", "error"},
   running   |-> {"stopping", "suspended", "error"},
   stopping  |-> {"stopped", "error", "running"},
   suspended |-> {"running", "stopped", "error"},
   error     |-> {"stopped", "starting"}]

EligibilityTable ==
  [start   |-> {"stopped"},
   stop    |-> {"running", "starting"},
   restart |-> {"running"},
   suspend |-> {"running"},
   resume  |-> {"suspended"},
   update  |-> {"stopped"},
   delete  |-> {"stopped"}]

(***************************************************************************)
(* Steps of a request, as seen from outside.                               *)
(***************************************************************************)
\* The requests of one operation that wait for their UpdateStatus call,
\* before or after the step.
WriteRequests(operation) ==
  {r \in BagToSet(inflight) \cup BagToSet(inflight') : r.op = operation}

\* The step in which request r passes its checks.
Accepted(r) == CopiesIn(r, inflight') > CopiesIn(r, inflight)

\* The step in which request r makes its write and returns.
Returns(r) == CopiesIn(r, inflight') < CopiesIn(r, inflight)

\* The step in which a request of this operation is turned down after its
\* read, for another reason than a failing or empty read.
Rejected(operation) ==
  /\ issued' = issued + 1
  /\ inflight' = inflight
  /\ resp'.op = operation
  /\ resp'.result \notin {"StorageError", "NotFound"}

ProvisioningPending(v) == BagIn(Task("provisioning", v, "sleep", 0, 0), tasks)
StartupPending(v) == BagIn(Task("startup", v, "sleep", 0, 0), tasks)
ShutdownPending(v) == BagIn(Task("shutdown", v, "sleep", 0, 0), tasks)

\* The step in which a background task of this kind runs to its end for v.
TaskRuns(kind, v) ==
  CopiesIn(Task(kind, v, "sleep", 0, 0), tasks')
    < CopiesIn(Task(kind, v, "sleep", 0, 0), tasks)

\* The step in which the status write of a background task of v fails.
TaskWriteFails(kind, v) == taskErrors'[v][kind] > taskErrors[v][kind]

\* The step in which a stats refresh of v (a request's or the updater's)
\* makes its UpdateStats call and the call succeeds.
StatsWriteApplied(v) ==
  \/ \E r \in BagToSet(inflight) :
       r.op = "stats" /\ r.vm = v /\ Returns(r) /\ resp'.result = "ok"
  \/ \E t \in BagToSet(tasks) :
       /\ t.kind = "updater" /\ t.vm = v /\ t.pc = "write"
       /\ CopiesIn(t, tasks') < CopiesIn(t, tasks)
       /\ RowVisible(v)
       /\ vms'[v] = StatsWritten(v, t.uptime, t.at, t.rx)[v]

\* The number of startStatsUpdater goroutines of v in a bag of tasks.
UpdatersOf(v, bag) ==
  BagCardinality([t \in {u \in BagToSet(bag) : u.kind = "updater" /\ u.vm = v} |-> bag[t]])

(***************************************************************************)
(* Claims.                                                                 *)
(***************************************************************************)

\* C1: for every pair (current, next) of the seven statuses,
\* IsValidStatusTransition is true exactly when next is in the allowed-next
\* set of current in the transition table; a status is never a valid
\* transition to itself.
C1_TransitionsMatchTable ==
  (fn.validDone /\ fn.status \in Statuses /\ fn.newStatus \in Statuses)
    => /\ fn.valid <=> (fn.newStatus \in TransitionTable[fn.status])
       /\ fn.status = fn.newStatus => ~fn.valid

C1_Witness ==
  /\ fn.validDone
  /\ fn.status = VMStatusStopping
  /\ fn.newStatus = VMStatusRunning
  /\ fn.valid

\* C2: for every (status, operation) pair CanPerformOperation agrees with the
\* eligibility table, and it is false for every pair the table does not list.
C2_EligibilityMatchesTable ==
  (fn.canDone /\ fn.status \in Statuses)
    => (fn.can <=> /\ fn.operation \in DOMAIN EligibilityTable
                   /\ fn.status \in EligibilityTable[fn.operation])

C2_Witness ==
  /\ fn.canDone
  /\ fn.status = VMStatusStarting
  /\ fn.operation = "stop"
  /\ fn.can

\* C3: with requests and background tasks interleaved between their
\* repository calls, every change of a VM's persisted status goes from a
\* status s to a status in allowed-next(s) of the transition table.
C3_StatusChangesFollowTable ==
  [][\A v \in VMIds :
       (vms[v].status # NoRow /\ vms'[v].status # vms[v].status)
         => vms'[v].status \in TransitionTable[vms[v].status]]_vars

\* C4: a StartVM that returns success had read stopped and leaves the
\* persisted status starting with the startup task started; StartVM is
\* accepted from stopped only and is turned down with InvalidVMState
\* (reporting the status it read) otherwise; and once the startup task is
\* started, it eventually runs (with finitely many requests, no startup
\* task stays pending), and the status becomes running in that step unless
\* the task's write fails.
C4_StartContract ==
  /\ [][/\ \A r \in WriteRequests("start") :
             /\ Accepted(r) => (vms[r.vm].status = VMStatusStopped /\ r.seen = VMStatusStopped)
             /\ (Returns(r) /\ resp'.result = "ok")
                  => /\ resp'.op = "start"
                     /\ vms'[r.vm].status = VMStatusStarting
                     /\ tasks' = tasks (+) One(Task("startup", r.vm, "sleep", 0, 0))
        /\ Rejected("start")
             => /\ resp'.result = "InvalidVMState"
                /\ resp'.current = vms[resp'.vm].status
                /\ resp'.current # VMStatusStopped
        /\ \A v \in VMIds :
             TaskRuns("startup", v)
               => (vms'[v].status = VMStatusRunning \/ TaskWriteFails("startup", v))]_vars
  /\ \A v \in VMIds :
       StartupPending(v) ~> ~StartupPending(v)

C4_Witness ==
  /\ resp.op = "start"
  /\ resp.result = "ok"
  /\ vms[resp.vm].status = VMStatusRunning
  /\ taskErrors[resp.vm]["startup"] = 0

\* C5: whenever a VM is running, its startedAt is set.
C5_RunningHasStartedAt ==
  \A v \in VMIds : vms[v].status = VMStatusRunning => vms[v].startedAt # 0

\* C6: the persisted uptimeSeconds is 0 while the VM is not running, and for
\* a running VM whose stats were refreshed after it became running it is the
\* time from then to the refresh, hence positive.
C6_UptimeIsElapsedTime ==
  \A v \in VMIds :
    /\ vms[v].status # VMStatusRunning => vms[v].uptime = 0
    /\ (vms[v].status = VMStatusRunning /\ vms[v].lastStats > runningSince[v])
         => /\ vms[v].uptime = vms[v].lastStats - runningSince[v]
            /\ vms[v].uptime > 0

\* C7: a StopVM without force that returns success leaves the persisted
\* status stopping with the shutdown task started; on a VM it read as running
\* it is not turned down; and once the shutdown task is started, it
\* eventually runs (with finitely many requests, no shutdown task stays
\* pending), and the status becomes stopped in that step unless the task's
\* write fails.
C7_StopContract ==
  /\ [][/\ \A r \in WriteRequests("stop") :
             /\ Accepted(r) => r.seen = vms[r.vm].status
             /\ (Returns(r) /\ resp'.result = "ok")
                  => /\ resp'.op = "stop"
                     /\ vms'[r.vm].status = VMStatusStopping
                     /\ tasks' = tasks (+) One(Task("shutdown", r.vm, "sleep", 0, 0))
        /\ Rejected("stop")
             => /\ resp'.result = "InvalidVMState"
                /\ resp'.current = vms[resp'.vm].status
                /\ resp'.current # VMStatusRunning
        /\ \A v \in VMIds :
             TaskRuns("shutdown", v)
               => (vms'[v].status = VMStatusStopped \/ TaskWriteFails("shutdown", v))]_vars
  /\ \A v \in VMIds :
       ShutdownPending(v) ~> ~ShutdownPending(v)

C7_Witness ==
  /\ resp.op = "stop"
  /\ resp.result = "ok"
  /\ vms[resp.vm].status = VMStatusStopped
  /\ taskErrors[resp.vm]["shutdown"] = 0

\* C8: a StopVM with force on a VM read as running or starting is not turned
\* down with InvalidVMState.
C8_ForceStopAccepted ==
  (resp.op = "force-stop" /\ resp.result = "InvalidVMState")
    => resp.current \notin {VMStatusRunning, VMStatusStarting}

\* C9: a RestartVM on a VM read as running is not turned down with
\* InvalidVMState.
C9_RestartAccepted ==
  (resp.op = "restart" /\ resp.result = "InvalidVMState")
    => resp.current # VMStatusRunning

\* C10: a SuspendVM (ResumeVM) that returns success had read running
\* (suspended) and leaves the persisted status suspended (running) without
\* starting any background task; it is accepted from that status only and is
\* turned down with InvalidVMState, reporting the status it read, otherwise.
C10_SuspendResumeSynchronous ==
  [][\A operation \in {"suspend", "resume"} :
       LET required == IF operation = "suspend" THEN VMStatusRunning ELSE VMStatusSuspended
           target == IF operation = "suspend" THEN VMStatusSuspended ELSE VMStatusRunning
       IN  /\ \A r \in WriteRequests(operation) :
                /\ Accepted(r) => (vms[r.vm].status = required /\ r.seen = required)
                /\ (Returns(r) /\ resp'.result = "ok")
                     => /\ resp'.op = operation
                        /\ vms'[r.vm].status = target
                        /\ tasks' = tasks
           /\ Rejected(operation)
                => /\ resp'.result = "InvalidVMState"
                   /\ resp'.current = vms[resp'.vm].status
                   /\ resp'.current # required]_vars

C10_Witness ==
  /\ resp.op = "resume"
  /\ resp.result = "ok"
  /\ vms[resp.vm].status = VMStatusRunning

\* C11: a CreateVM that returns success has inserted the VM with status
\* pending, returns it with that status and has started the provisioning
\* task; once started, the task eventually runs (with finitely many
\* requests, no provisioning task stays pending), and the status becomes
\* stopped in that step unless the task's write fails.
C11_CreateContract ==
  /\ [][/\ \A r \in WriteRequests("create") :
             (Returns(r) /\ resp'.result = "ok")
               => /\ resp'.op = "create"
                  /\ resp'.vm \in VMIds
                  /\ vms[resp'.vm].status = NoRow
                  /\ vms'[resp'.vm] = NewRow(r.name, r.held.spec)
                  /\ resp'.current = VMStatusPending
                  /\ tasks' = tasks (+) One(Task("provisioning", resp'.vm, "sleep", 0, 0))
        /\ \A v \in VMIds :
             TaskRuns("provisioning", v)
               => (vms'[v].status = VMStatusStopped \/ TaskWriteFails("provisioning", v))]_vars
  /\ \A v \in VMIds :
       ProvisioningPending(v) ~> ~ProvisioningPending(v)

C11_Witness ==
  /\ resp.op = "create"
  /\ resp.result = "ok"
  /\ vms[resp.vm].status = VMStatusStopped
  /\ taskErrors[resp.vm]["provisioning"] = 0
  /\ ~ProvisioningPending(resp.vm)

\* C12: no two non-deleted VMs have the same name; and a CreateVM or a
\* renaming UpdateVM that makes a repository call while another non-deleted
\* VM has its name is turned down at that call, with AlreadyExists unless the
\* call itself fails, and writes nothing.
C12_NamesUnique ==
  /\ [](\A v, w \in VMIds :
          (v # w /\ RowVisible(v) /\ RowVisible(w)) => vms[v].name # vms[w].name)
  /\ [][\A r \in WriteRequests("create") \cup WriteRequests("update") :
          (/\ Returns(r)
           /\ \E w \in VMIds \ {r.vm} : RowVisible(w) /\ vms[w].name = r.held.name)
            => /\ resp'.op = r.op
               /\ resp'.result \in {"AlreadyExists", "StorageError"}
               /\ vms' = vms
               /\ tasks' = tasks]_vars

C12_Witness ==
  /\ resp.op = "update"
  /\ resp.result = "AlreadyExists"
  /\ \A v \in VMIds : RowVisible(v)
  /\ \E v, w \in VMIds : vms[v].name # vms[w].name

\* C13: a CreateVM is turned down at its insert with AlreadyExists only when
\* a non-deleted VM has its name: the name of a soft-deleted VM is free.
C13_DeletedNameAvailable ==
  [][\A r \in WriteRequests("create") :
       (Returns(r) /\ resp'.result = "AlreadyExists") => ExistsByName(r.name)]_vars

\* C16: every soft-deleted VM has persisted status stopped.
C16_DeletedOnlyWhenStopped ==
  \A v \in VMIds : vms[v].deleted => vms[v].status = VMStatusStopped

\* C18: a stats write of a refresh is applied only while the persisted
\* status is running.
C18_StatsOnlyWhileRunning ==
  [][\A v \in VMIds :
       StatsWriteApplied(v) => vms[v].status = VMStatusRunning]_vars

\* C19: the network counter of a VM never decreases.
C19_CountersNeverDecrease ==
  [][\A v \in VMIds :
       vms[v].status # NoRow => vms'[v].rx >= vms[v].rx]_vars

\* C14: a CreateVM call fails with ResourceExceeded exactly when the CPU
\* count, the RAM or the disk it asks for is above its configured maximum;
\* the error names the first resource over its maximum in the order CPU, RAM,
\* disk with the value asked for; a request with every value equal to its
\* maximum is not refused, and a VM that was created carries the values asked
\* for.
C14_ResourceLimits ==
  /\ [][(issued = 0 /\ issued' = 1) =>
          LET overCPU  == fn.cpu > MaxCPUCores
              overRAM  == fn.ram > MaxRAMMB
              overDisk == fn.disk > MaxDiskGB
          IN  /\ (resp'.result = "ResourceExceeded") <=> (overCPU \/ overRAM \/ overDisk)
              /\ overCPU => (resp'.resource = "CPU cores" /\ resp'.requested = fn.cpu)
              /\ (~overCPU /\ overRAM) =>
                   (resp'.resource = "RAM MB" /\ resp'.requested = fn.ram)
              /\ (~overCPU /\ ~overRAM /\ overDisk) =>
                   (resp'.resource = "Disk GB" /\ resp'.requested = fn.disk)
              /\ (overCPU \/ overRAM \/ overDisk) =>
                   (inflight' = inflight /\ vms' = vms /\ tasks' = tasks)
              /\ (fn.cpu = MaxCPUCores /\ fn.ram = MaxRAMMB /\ fn.disk = MaxDiskGB) =>
                   resp'.result # "ResourceExceeded"]_vars
  /\ [](\A v \in VMIds : vms[v].status # NoRow =>
           /\ vms[v].spec = VMSpec(fn.cpu, fn.ram, fn.disk)
           /\ fn.cpu <= MaxCPUCores /\ fn.ram <= MaxRAMMB /\ fn.disk <= MaxDiskGB)

\* A request with the CPU count at its maximum and both RAM and disk one
\* above theirs was refused for its RAM.
C14_Witness ==
  /\ fn.cpu = MaxCPUCores /\ fn.ram = MaxRAMMB + 1 /\ fn.disk = MaxDiskGB + 1
  /\ resp.op = "create"
  /\ resp.result = "ResourceExceeded"
  /\ resp.resource = "RAM MB"
  /\ resp.requested = MaxRAMMB + 1

\* C15: an UpdateVM call that finds the VM in a status other than stopped
\* fails with InvalidVMState reporting that status as current and stopped as
\* required (or with the storage error of its read); it goes no further than
\* the check, and no field of any stored VM changes.
C15_UpdateRequiresStopped ==
  [][\A v \in VMIds :
       (issued' = issued + 1 /\ RowVisible(v) /\ vms[v].status # VMStatusStopped) =>
         /\ \A r \in BagToSet(inflight') :
               (r.op = "update" /\ r.vm = v) => ~Accepted(r)
         /\ (inflight' = inflight /\ resp'.op = "update" /\ resp'.vm = v) =>
               /\ resp'.result \in {"InvalidVMState", "StorageError"}
               /\ resp'.result = "InvalidVMState" =>
                    (resp'.current = vms[v].status /\ resp'.required = VMStatusStopped)
               /\ vms' = vms
               /\ tasks' = tasks]_vars

\* An UpdateVM on a running VM was refused with current running and required
\* stopped.
C15_Witness ==
  /\ resp.op = "update"
  /\ resp.result = "InvalidVMState"
  /\ resp.current = VMStatusRunning
  /\ resp.required = VMStatusStopped
  /\ RowVisible(resp.vm)
  /\ vms[resp.vm].status = VMStatusRunning

\* C17: once a DeleteVM on an id has returned success, every call issued on
\* that id afterwards (GetVM, a lifecycle operation, UpdateVM, DeleteVM)
\* fails with NotFound, or with the storage error of its read, and goes no
\* further; likewise for an id that was never created.
C17_DeletedIsNotFound ==
  [][\A v \in deletedIds \cup FreeIds :
       issued' = issued + 1 =>
         /\ \A r \in BagToSet(inflight') : r.vm = v => ~Accepted(r)
         /\ (inflight' = inflight /\ resp'.vm = v) =>
               resp'.result \in {"NotFound", "StorageError"}]_vars

\* C20: the pagination ListVMs reports has totalPages equal to the ceiling
\* of total / limit (the least number of pages of limit entries that hold
\* total entries), hasNext exactly when page < totalPages and hasPrev exactly
\* when page > 1; a total of 0 gives totalPages 0 and no next page.
C20_Pagination ==
  fn.done =>
    /\ fn.totalPages >= 0
    /\ fn.totalPages * fn.limit >= fn.total
    /\ fn.totalPages > 0 => (fn.totalPages - 1) * fn.limit < fn.total
    /\ fn.hasNext <=> (fn.page < fn.totalPages)
    /\ fn.hasPrev <=> (fn.page > 1)
    /\ fn.total = 0 => (fn.totalPages = 0 /\ ~fn.hasNext)

\* Seven entries in pages of three: three pages, and page 2 has a page before
\* and a page after it.
C20_Witness ==
  /\ fn.done
  /\ fn.total = 7 /\ fn.limit = 3 /\ fn.page = 2
  /\ fn.totalPages = 3
  /\ fn.hasNext
  /\ fn.hasPrev

\* C21: for each of CPU, RAM and disk the summary reports as total the sum
\* of the resource over the VMs that are not soft-deleted, as used the sum
\* over those of them that are running, and as available total - used, with
\* 0 <= used <= total; soft-deleted VMs count for nothing.
C21_SummarySums ==
  fn.result = "ok" =>
    LET live == {v \in VMIds : vms[v].status # NoRow /\ ~vms[v].deleted}
        running == {v \in live : vms[v].status = VMStatusRunning}
        SumOver(S, res) ==
          LET ss[T \in SUBSET VMIds] ==
                IF T = {} THEN 0
                ELSE LET x == CHOOSE y \in T : TRUE
                     IN  vms[x].spec[res] + ss[T \ {x}]
          IN  ss[S]
    IN  \A res \in Resources :
          /\ fn.summary[res].total = SumOver(live, res)
          /\ fn.summary[res].used = SumOver(running, res)
          /\ fn.summary[res].available = fn.summary[res].total - fn.summary[res].used
          /\ 0 <= fn.summary[res].used
          /\ fn.summary[res].used <= fn.summary[res].total

\* A fleet whose only visible VMs are a stopped one with 2 cores and a
\* running one with 1: total 3, used 1, available 2.
C21_Witness ==
  /\ fn.result = "ok"
  /\ \E v, w \in VMIds :
       /\ vms[v].status = VMStatusStopped /\ ~vms[v].deleted /\ vms[v].spec.cpu = 2
       /\ vms[w].status = VMStatusRunning /\ ~vms[w].deleted /\ vms[w].spec.cpu = 1
       /\ \A u \in VMIds \ {v, w} : ~RowVisible(u)
  /\ fn.summary["cpu"].total = 3
  /\ fn.summary["cpu"].used = 1
  /\ fn.summary["cpu"].available = 2

\* C22: the usage percentage of a resource is used / total x 100 (here to
\* the nearest hundredth of a percent) when total > 0 and exactly 0 when
\* total is 0; the summary of an empty fleet comes without error and with
\* every percentage 0.
C22_UsagePercent ==
  /\ fn.result = "ok" =>
       \A res \in Resources :
         LET r == fn.summary[res]
         IN  /\ r.total = 0 => r.usage = 0
             /\ r.total > 0 =>
                  /\ 2 * (r.usage * r.total - r.used * 10000) <= r.total
                  /\ 2 * (r.used * 10000 - r.usage * r.total) <= r.total
  /\ (fn.result # "none" /\ \A v \in VMIds : ~RowVisible(v)) =>
       (fn.result = "ok" => \A res \in Resources : fn.summary[res].usage = 0)

\* One of three cores in use: 33.33 percent.
C22_Witness ==
  /\ fn.result = "ok"
  /\ fn.summary["cpu"].total = 3
  /\ fn.summary["cpu"].used = 1
  /\ fn.summary["cpu"].usage = 3333

\* C23: no request returns success after a repository call it made has
\* failed: every such error is the request's answer.
C23_ErrorsPropagate ==
  [][\A r \in BagToSet(inflight) :
       (Returns(r) /\ resp'.op = r.op /\ resp'.result = "ok") => r.errs = 0]_vars

\* C24: a StartVM, StopVM, RestartVM, SuspendVM or ResumeVM call that finds
\* the VM in a status the eligibility table does not list for it fails with
\* InvalidVMState (or with the storage error of its read), and the error
\* reports the status found as current and a status the table lists for the
\* operation as required.
C24_RequiredStatusReported ==
  [][\A v \in VMIds :
       LET required == [start   |-> {VMStatusStopped},
                        stop    |-> {VMStatusRunning, VMStatusStarting},
                        restart |-> {VMStatusRunning},
                        suspend |-> {VMStatusRunning},
                        resume  |-> {VMStatusSuspended}]
       IN  (/\ issued' = issued + 1
            /\ inflight' = inflight
            /\ resp'.vm = v
            /\ resp'.op \in DOMAIN required
            /\ RowVisible(v)
            /\ vms[v].status \notin required[resp'.op]) =>
             /\ resp'.result \in {"InvalidVMState", "StorageError"}
             /\ resp'.result = "InvalidVMState" =>
                  /\ resp'.current = vms[v].status
                  /\ resp'.required \in required[resp'.op]]_vars

\* C25: after a successful UpdateVM the stored name, description, CPU count,
\* RAM and disk are each the request's value where the request has one and
\* the value stored before otherwise, and nothing else of the VM changed; the
\* call is refused with ResourceExceeded only when a merged resource value is
\* above its maximum, and when one is it goes no further than that check.
C25_UpdateMerges ==
  /\ [](LET merged == [cpu  |-> IF fn.cpu # 0 THEN fn.cpu ELSE fn.old.spec.cpu,
                       ram  |-> IF fn.ram # 0 THEN fn.ram ELSE fn.old.spec.ram,
                       disk |-> IF fn.disk # 0 THEN fn.disk ELSE fn.old.spec.disk]
            over == \/ merged.cpu > MaxCPUCores
                    \/ merged.ram > MaxRAMMB
                    \/ merged.disk > MaxDiskGB
        IN  /\ resp.result = "ok" =>
                 /\ vms[1].name = (IF fn.name # "" THEN fn.name ELSE fn.old.name)
                 /\ vms[1].description =
                      (IF fn.description # "" THEN fn.description ELSE fn.old.description)
                 /\ vms[1].spec = merged
                 /\ vms[1] = [fn.old EXCEPT !.name = vms[1].name,
                                            !.description = vms[1].description,
                                            !.spec = vms[1].spec]
                 /\ ~over
            /\ resp.result = "ResourceExceeded" => over
            /\ resp.result # "ok" => vms[1] = fn.old)
  /\ [][LET over == \/ (IF fn.cpu # 0 THEN fn.cpu ELSE fn.old.spec.cpu) > MaxCPUCores
                    \/ (IF fn.ram # 0 THEN fn.ram ELSE fn.old.spec.ram) > MaxRAMMB
                    \/ (IF fn.disk # 0 THEN fn.disk ELSE fn.old.spec.disk) > MaxDiskGB
        IN  (issued = 0 /\ issued' = 1 /\ over) =>
              /\ resp'.result \in {"ResourceExceeded", "StorageError"}
              /\ inflight' = inflight]_vars

\* An update that carries a description and a RAM value and nothing else
\* succeeded on a VM whose spec was all ones: name, CPU and disk are the old
\* ones, the RAM is the new one.
C25_Witness ==
  /\ resp.op = "update"
  /\ resp.result = "ok"
  /\ fn.name = "" /\ fn.description = "text"
  /\ fn.cpu = 0 /\ fn.ram = MaxRAMMB /\ fn.disk = 0
  /\ fn.old.spec = VMSpec(1, 1, 1)
  /\ vms[1].name = "vm-a"
  /\ vms[1].description = "text"
  /\ vms[1].spec = VMSpec(1, MaxRAMMB, 1)

\* C26: changeVMState goes on to its status write only when the status it
\* read passes both the eligibility check of the operation and the
\* transition check to the new status; when one of them fails the call
\* returns InvalidVMState, no stored VM changes and no background task is
\* started; and a write that succeeds leaves the new status of the
\* operation.  (Both checks report the same error, so their order shows in
\* nothing a caller sees.)
C26_BothChecksBeforeWrite ==
  [][/\ \A r \in BagToSet(inflight') :
         (/\ Accepted(r)
          /\ r.pc = "write"
          /\ r.op \in DirectOperations \cup {"restart-stop"}) =>
            /\ RowVisible(r.vm)
            /\ r.seen = vms[r.vm].status
            /\ CanPerformOperation(r.seen, r.op)
            /\ IsValidStatusTransition(r.seen, NewStatusOf(r.op))
            /\ vms' = vms
            /\ tasks' = tasks
     /\ \A operation \in DirectOperations :
         (/\ issued' = issued + 1
          /\ inflight' = inflight
          /\ resp'.op = operation
          /\ RowVisible(resp'.vm)
          /\ \/ ~CanPerformOperation(vms[resp'.vm].status, operation)
             \/ ~IsValidStatusTransition(vms[resp'.vm].status, NewStatusOf(operation))) =>
            /\ resp'.result \in {"InvalidVMState", "StorageError"}
            /\ vms' = vms
            /\ tasks' = tasks
     /\ \A r \in BagToSet(inflight) :
         (/\ Returns(r)
          /\ r.op = "restart-stop"
          /\ r.pc = "read"
          /\ RowVisible(r.vm)
          /\ \A q \in BagToSet(inflight') : ~Accepted(q)) =>
            /\ resp'.op = "restart"
            /\ resp'.result \in {"InvalidVMState", "StorageError"}
            /\ vms' = vms
            /\ tasks' = tasks
     /\ \A r \in BagToSet(inflight) :
         (/\ Returns(r)
          /\ r.pc = "write"
          /\ r.op \in DirectOperations \cup {"restart-stop"}
          /\ resp'.result = "ok") =>
            vms'[r.vm].status = NewStatusOf(r.op)]_vars

\* A StopVM found the VM starting: eligible for stop, but starting to
\* stopping is no transition of the table, and the call was turned down with
\* the VM left starting.
C26_Witness ==
  /\ resp.op = "stop"
  /\ resp.result = "InvalidVMState"
  /\ resp.current = VMStatusStarting
  /\ vms[resp.vm].status = VMStatusStarting
  /\ StartupPending(resp.vm)

C28_TransientOnlyTaskWrites ==
  [][\A v \in VMIds :
       LET transient == {VMStatusPending, VMStatusStarting, VMStatusStopping}
           kind == [pending |-> "provisioning", starting |-> "startup",
                    stopping |-> "shutdown"]
           requests == {"start", "stop", "force-stop", "restart", "restart-stop",
                        "suspend", "resume", "update", "delete"}
       IN  /\ (RowVisible(v) /\ vms[v].status \in transient) =>
                /\ \A r \in BagToSet(inflight') :
                      (r.vm = v /\ r.op \in requests) => ~Accepted(r)
                /\ (/\ issued' = issued + 1
                    /\ inflight' = inflight
                    /\ resp'.vm = v
                    /\ resp'.op \in requests) =>
                      /\ resp'.result \in {"InvalidVMState", "StorageError"}
                      /\ vms' = vms
                      /\ tasks' = tasks
                /\ vms'[v].status # vms[v].status =>
                      TaskRuns(kind[vms[v].status], v)
           /\ \A st \in transient :
                TaskRuns(kind[st], v) => (RowVisible(v) /\ vms[v].status = st)]_vars

\* A DeleteVM was turned down on a VM that is starting, its startup task
\* still pending.
C28_Witness ==
  /\ resp.op = "delete"
  /\ resp.result = "InvalidVMState"
  /\ resp.current = VMStatusStarting
  /\ vms[resp.vm].status = VMStatusStarting
  /\ StartupPending(resp.vm)



\* C29: each lifecycle operation (StartVM, StopVM without force, SuspendVM,
\* ResumeVM, RestartVM) succeeds from exactly the statuses the eligibility
\* table lists for it: a call that goes on to its write has read a listed
\* status, and no call is turned down with an invalid-state error on a
\* status the table lists for its operation.
C29_SucceedsFromEligible ==
  [][LET lifecycle == {"start", "stop", "suspend", "resume", "restart"}
         answered == \/ issued' = issued + 1 /\ inflight' = inflight
                     \/ \E r \in BagToSet(inflight) : Returns(r)
     IN  /\ \A r \in BagToSet(inflight') :
              (Accepted(r) /\ RequestOf(r.op) \in lifecycle /\ r.pc = "write") =>
                 CanPerformOperation(r.seen, RequestOf(r.op))
         /\ (answered /\ resp'.op \in lifecycle /\ resp'.result = "InvalidVMState") =>
               ~CanPerformOperation(resp'.current, resp'.op)]_vars


\* C30: of the StartVM requests on one stopped VM that overlap between
\* their read of the status and their write, at most one is accepted: a
\* StartVM that returns success has made the write that takes the VM from
\* stopped to starting, and a startup task is spawned only by such a write.
C30_OneStartAccepted ==
  [][/\ \A r \in BagToSet(inflight) :
          (r.op = "start" /\ r.pc = "write" /\ Returns(r) /\ resp'.result = "ok") =>
             /\ vms[r.vm].status = VMStatusStopped
             /\ vms'[r.vm].status = VMStatusStarting
     /\ \A v \in VMIds :
          CopiesIn(Task("startup", v, "sleep", 0, 0), tasks')
             > CopiesIn(Task("startup", v, "sleep", 0, 0), tasks) =>
            /\ vms[v].status = VMStatusStopped
            /\ vms'[v].status = VMStatusStarting]_vars


C32_UpdaterTerminates ==
  /\ [][\A t \in BagToSet(tasks) :
          (t.kind = "updater" /\ t.pc = "tick" /\ CopiesIn(t, tasks') < CopiesIn(t, tasks)) =>
             /\ vms' = vms
             /\ UpdatersOf(t.vm, tasks') \in {UpdatersOf(t.vm, tasks), UpdatersOf(t.vm, tasks) - 1}
             /\ ~(RowVisible(t.vm) /\ vms[t.vm].status = VMStatusRunning) =>
                   UpdatersOf(t.vm, tasks') = UpdatersOf(t.vm, tasks) - 1
             /\ UpdatersOf(t.vm, tasks') = UpdatersOf(t.vm, tasks) =>
                   CopiesIn(Task("updater", t.vm, "call", 0, 0), tasks')
                     > CopiesIn(Task("updater", t.vm, "call", 0, 0), tasks)]_vars
  /\ \A v \in VMIds :
       <>[](~(RowVisible(v) /\ vms[v].status = VMStatusRunning)) =>
         <>[](UpdatersOf(v, tasks) = 0)

\* An updater has just ended at a tick at which its VM, started and then
\* stopped, was no longer running.
C32_Witness ==
  \E v \in VMIds :
    /\ vms[v].status = VMStatusStopped
    /\ runningSince[v] # 0
    /\ UpdatersOf(v, tasks) = 0
    /\ ~ShutdownPending(v)
    /\ resp.op = "stop" /\ resp.vm = v /\ resp.result = "ok"


\* C33: whenever a VM becomes running as the result of a service operation
\* (start, restart or resume), a periodic stats updater is active for it;
\* this holds also for a VM that was suspended and then resumed.
C33_RunningHasUpdater ==
  [][\A v \in VMIds :
       (vms[v].status # VMStatusRunning /\ vms'[v].status = VMStatusRunning) =>
          UpdatersOf(v, tasks') >= 1]_vars


\* C34: at any time at most one periodic stats updater is active for a VM,
\* over any sequence of start, stop, suspend, resume and restart operations
\* on it, a stop followed by a start within one tick interval included.
C34_OneUpdaterPerVM == \A v \in VMIds : UpdatersOf(v, tasks) <= 1


\* C35: UpdateVM never changes a VM's status or stats: after a successful
\* update they have the values they had in the store immediately before
\* the update's write, also when a lifecycle operation, a background task
\* or a stat refresh on the VM came between the update's read and write.
C35_UpdateKeepsStatusAndStats ==
  [][\A r \in BagToSet(inflight) :
       (r.op = "update" /\ r.pc = "write" /\ Returns(r) /\ resp'.result = "ok") =>
          /\ vms'[r.vm].status = vms[r.vm].status
          /\ vms'[r.vm].startedAt = vms[r.vm].startedAt
          /\ vms'[r.vm].uptime = vms[r.vm].uptime
          /\ vms'[r.vm].lastStats = vms[r.vm].lastStats
          /\ vms'[r.vm].rx = vms[r.vm].rx]_vars


C38_FailedCreateChangesNothing ==
  /\ [][LET answered == (issued' = issued + 1 /\ inflight' = inflight)
                           \/ (\E r \in BagToSet(inflight) : r.op = "create" /\ Returns(r))
             spawned(v) == CopiesIn(Task("provisioning", v, "sleep", 0, 0), tasks')
                             - CopiesIn(Task("provisioning", v, "sleep", 0, 0), tasks)
         IN  /\ (answered /\ resp'.op = "create" /\ resp'.result # "ok") =>
                  /\ resp'.result \in {"ResourceExceeded", "AlreadyExists", "StorageError"}
                  /\ vms' = vms
                  /\ tasks' = tasks
             /\ \A v \in VMIds :
                  /\ spawned(v) <= 1
                  /\ spawned(v) = 1 <=>
                       /\ vms[v].status = NoRow /\ vms'[v].status = VMStatusPending
                       /\ resp'.op = "create" /\ resp'.vm = v /\ resp'.result = "ok"
                  /\ (vms[v].status = NoRow /\ vms'[v].status # NoRow) => spawned(v) = 1]_vars
  /\ [](\A v \in VMIds :
          /\ CopiesIn(Task("provisioning", v, "sleep", 0, 0), tasks) <= 1
          /\ ProvisioningPending(v) => vms[v].status # NoRow)

\* A CreateVM was turned down for its name while the VM that holds the name
\* still waits for its provisioning task.
C38_Witness ==
  /\ resp.op = "create"
  /\ resp.result = "AlreadyExists"
  /\ ProvisioningPending(1)
  /\ vms[2].status = NoRow
  /\ BagCardinality(tasks) = 1


\* C39: the error returned to one request is not affected by other
\* requests: the code, details and context of the error sent to a caller
\* are those of its own failure, also when another caller produces an
\* error of the same kind between this caller's error creation and its
\* response.
C39_ErrorIsOwn ==
  \A c \in Callers :
    LET call == fn.call[c]
    IN  fn.at[c] = Len(call.writes) + 3 =>
          /\ fn.sent[c].code = call.sentinel
          /\ fn.sent[c].details = call.details
          /\ fn.sent[c].context["request_id"] = c
          /\ \A i \in 1..Len(call.writes) :
               fn.sent[c].context[call.writes[i][1]] = call.writes[i][2]


\* C40: with the trigger validate_vm_status_transition installed, the store
\* accepts a change of status from old to new, old # new, exactly when
\* IsValidStatusTransition does: a write the service has validated against
\* the stored status is never refused by the store, and a change of status
\* the service would refuse is never accepted by the trigger.
C40_TriggerMatchesService ==
  (trigger /\ fn.result # "none" /\ fn.old # fn.newStatus) =>
     /\ fn.valid <=> fn.result = "ok"
     /\ fn.valid => vms[1].status = fn.newStatus
     /\ ~fn.valid => (fn.result = "StorageError" /\ vms[1].status = fn.old)

\* The trigger has refused the write of stopping on a starting VM, which
\* the service refuses as well.
C40_Witness ==
  /\ trigger
  /\ fn.result = "StorageError"
  /\ fn.old = VMStatusStarting
  /\ fn.newStatus = VMStatusStopping
  /\ ~fn.valid

====
